---------------------------- MODULE Spec2Model ----------------------------
(***************************************************************************)
(* A model of the bulk-fetch orchestrator of buffett-code-api-tools:       *)
(*   bc_api.py   BCAPI.__fetch_safe, the two planners, get_quarter,        *)
(*               get_indicator, get_company                                *)
(*   bc_data.py  BCData.fetch_company, BCData.__fetch_elem (with its       *)
(*               sink _write_csv and __make_all_pickle), load_*            *)
(*               BCData.get_plot_values, BCDataAbs.replace_value_str       *)
(*               BCDataQuarter.get_values.cagr                             *)
(*   bc-analyzer.py  Application.exec_load, exec_plot, exec_fetch,         *)
(*               stop_fetch, FetchThread                                   *)
(* One worker thread runs one fetch operation at a time; the foreground    *)
(* thread may set the stop flag while it runs.                             *)
(*                                                                         *)
(* Six specifications share the variables.  Spec is the fetch              *)
(* orchestrator over one category directory.  SpecPlanner applies the two  *)
(* planners to inputs of their own.  SpecQuery is the application's store  *)
(* under load, plot and fetch requests.  SpecRewrite applies               *)
(* replace_value_str to an expression and a column list.  SpecCagr applies *)
(* cagr to a series.  SpecApp is the application's foreground thread and   *)
(* its fetch threads, interleaved.  The variables a specification does not *)
(* use keep the values they start with.                                    *)
(*                                                                         *)
(* Encodings.  Python's None / "no file" is the empty set and a present    *)
(* value x is {x} (an option).  A table is the sequence of its rows; a row *)
(* is <<ticker, index of the period chunk that delivered it, fiscal        *)
(* quarter, position in the answer that delivered it>> (chunk 1 for an     *)
(* indicator row, chunk 0 for a row that was on disk before the model      *)
(* starts).  Time is counted in minutes since the start of the running     *)
(* operation.                                                              *)
(***************************************************************************)
EXTENDS Integers, Sequences, FiniteSets, TLC

\* ------------------------------------------------------------------ bounds
MaxTicker == 4        \* the company list holds the tickers 1..MaxTicker
MaxFails == 1         \* anomalous responses the external source gives in all
MaxFetches == 2       \* fetch operations started in one behaviour
MaxRetry == 1         \* the largest configured retry interval [minutes]
FirstYear == 2012     \* the first fiscal year a quarter fetch asks for
MaxYears == 3         \* a quarter fetch asks for FirstYear .. FirstYear+MaxYears
MaxEntities == 7      \* SpecPlanner: the longest entity list planned
MaxSpan == 7          \* SpecPlanner: quarters of FirstYear .. FirstYear+MaxSpan
MaxPlotTicker == 2    \* SpecQuery: the loaded tables hold the tickers 1..MaxPlotTicker
MaxExprLen == 4       \* SpecRewrite: the longest expression rewritten, in characters
MaxCagrYear == 3      \* SpecCagr: the fiscal years of a series are among 1..MaxCagrYear
MaxValue == 2         \* SpecCagr: the values of a series are among -1..MaxValue
MaxRuns == 2          \* SpecApp: fetch runs started in one behaviour
MaxCalls == 2         \* SpecApp: external calls of one category of a run

\* ------------------------------------------------------- program constants
MAX_NUM_COMPANY == 3
MAX_NUM_YEAR == 3
DAY == 1440           \* timedelta(days=1), in minutes

\* ------------------------------------------------------------------ options
None == {}
Some(x) == {x}
Get(o) == CHOOSE x \in o : TRUE

Range(s) == {s[i] : i \in 1..Len(s)}

\* The increasing sequence of the elements of a finite set of integers
\* (list(set) followed by targets.sort()).
RECURSIVE SortedSeq(_)
SortedSeq(S) ==
    IF S = {} THEN <<>>
    ELSE LET m == CHOOSE x \in S : \A y \in S : x <= y
         IN  <<m>> \o SortedSeq(S \ {m})

\* Variant: the quotient is rounded down.
Ceil_floor(n, k) == n \div k

Ceil(n, k) == (n + k - 1) \div k

\* ----------------------------------------------------------------- planners
\* Variant: the chunks are yielded from the last to the first.
SlicedTickers_reversed(tickers) ==
    [i \in 1..Ceil(Len(tickers), MAX_NUM_COMPANY) |->
        LET j == (Ceil(Len(tickers), MAX_NUM_COMPANY) - i) * MAX_NUM_COMPANY
        IN  SubSeq(tickers, j + 1,
                   IF j + MAX_NUM_COMPANY < Len(tickers)
                   THEN j + MAX_NUM_COMPANY ELSE Len(tickers))]

\* BCAPI.__sliced_tickers_generator: the chunks it yields, in order.
SlicedTickers(tickers) ==
    [i \in 1..Ceil(Len(tickers), MAX_NUM_COMPANY) |->
        LET j == (i - 1) * MAX_NUM_COMPANY
        IN  SubSeq(tickers, j + 1,
                   IF j + MAX_NUM_COMPANY < Len(tickers)
                   THEN j + MAX_NUM_COMPANY ELSE Len(tickers))]

\* __next_q / __prev_q on a quarter <<year, quarter>>.
NextQ(yq) == IF yq[2] > 3 THEN <<yq[1] + 1, 1>> ELSE <<yq[1], yq[2] + 1>>
\* Variant: the quarter before a first quarter stays in the same year.
PrevQ_nowrap(yq) == <<yq[1], yq[2] - 1>>

PrevQ(yq) == IF yq[2] < 2 THEN <<yq[1] - 1, 4>> ELSE <<yq[1], yq[2] - 1>>

\* BCAPI.__sliced_quarters_generator: the [from, to] ranges it yields.
RECURSIVE SlicedQuarters(_, _)
SlicedQuarters(s, e) ==
    LET dy == e[1] - s[1]
        dq == e[2] - s[2]
    IN  IF dy > MAX_NUM_YEAR \/ (dy = MAX_NUM_YEAR /\ dq >= 0)
        THEN LET tmp == PrevQ(<<s[1] + MAX_NUM_YEAR, s[2]>>)
             IN  <<(<<s, tmp>>)>> \o SlicedQuarters(NextQ(tmp), e)
        ELSE <<(<<s, e>>)>>


\* -------------------------------------------------------------------- state
Tickers == 1..MaxTicker                  \* the tickers of the company list
UnknownTicker == MaxTicker + 1           \* a ticker the company list lacks
DiskTickers == 1..UnknownTicker          \* tickers a per-entity file may name
CompanyList == [i \in 1..MaxTicker |-> i]
ColDicts == {"A", "B"}                   \* column_description values
OldRows(t) == << <<t, 0, 1, 1>> >>       \* content of a file present at start
RetryChoices == {-1, 0, MaxRetry}
ConfigChoices == {<<FirstYear, FirstYear>>, <<FirstYear, FirstYear + MaxYears>>}

VARIABLES
    category,       \* the category directory the behaviour tracks
    norows,         \* the <<ticker, period chunk>> the source has no rows for
    company,        \* BCData.company: None or Some(list of tickers)
    disk,           \* {category}/{ticker}.csv: None or Some(rows), per ticker
    columns_json,   \* {category}/columns.json: None or Some(col_dict)
    all_pickle,     \* {category}/all.pickle: None or Some(ticker -> rows)
    loaded,         \* BCData.quarter / BCData.indicator: None or Some(data)
    stop_fetch,     \* BCAPI.stop_fetch
    clock,          \* datetime.now()
    pc,             \* where the worker thread stands
    mode,           \* the operation: "company", "quarter", "indicator", "load"
    retry,          \* the retry argument [minutes]
    overwrite,      \* the overwrite argument
    periods,        \* the period chunks of the plan
    targets,        \* __fetch_elem's targets
    ci,             \* index of the entity chunk in progress
    pi,             \* index of the period chunk in progress
    results,        \* get_*'s results
    results_ts,     \* get_quarter's results_ts
    col_dict,       \* get_*'s col_dict: None or Some(column_description)
    retry_time,     \* __fetch_safe's retry_time
    need_output_columns,
    plan,           \* get_*: "none", "running", "completed", "stopped", "raised"
    outcome,        \* fetch_*: "none", "running", "returned", "raised"
    exc,            \* the exception that reached the caller, or "none"
    calls,          \* history: <<ci, pi, answer>> of every external call of the
                    \*   operation
    sunk,           \* history: <<ticker, table>> of every sink invocation
    quota_at,       \* history: time the last quota-exceeded response came back
    resp,           \* history: the last answer of the operation: "none",
                    \*   "quota", "error" or the column_description it carried
    resumed,        \* history: the operation follows a cancelled or failed
                    \*   fetch that had written files, and does not overwrite
    fails,          \* history: anomalous responses given so far
    nfetch          \* history: operations started so far

VARIABLES
    fn,             \* SpecPlanner: the planner applied last, or "none"
    arg,            \* SpecPlanner: its argument
    out,            \* SpecPlanner: the chunks it yielded, in order
    bcdata,         \* SpecQuery: Application.bcdata is not None
    quarter,        \* SpecQuery: BCData.quarter, None or Some(table)
    indicator,      \* SpecQuery: BCData.indicator, None or Some(table)
    plot_caches,    \* SpecQuery: BCData.plot_caches, its columns from left to
                    \* right, each <<name, values per ticker>>
    answer          \* SpecQuery: how the last plot request ended

VARIABLES
    fetch_thread,   \* SpecApp: Application.fetch_thread, None or Some(index in
                    \* threads)
    threads,        \* SpecApp: the FetchThread objects created, in order
    fetch_btn,      \* SpecApp: fetch_frame.fetch_btn["state"]
    stop_btn,       \* SpecApp: fetch_frame.stop_btn["state"]
    main            \* SpecApp: where the foreground thread stands, and the
                    \* exception a callback of it ended with

plannerVars == <<fn, arg, out>>
appVars == <<fetch_thread, threads, fetch_btn, stop_btn, main>>
queryVars == <<bcdata, quarter, indicator, plot_caches, answer>>
sideVars == <<plannerVars, queryVars, appVars>>

fetchVars == <<category, norows, company, disk, columns_json, all_pickle, loaded, stop_fetch,
          clock, pc, mode, retry, overwrite, periods, targets, ci, pi, results,
          results_ts, col_dict, retry_time, need_output_columns, plan, outcome,
          exc, calls, sunk, quota_at, resp, resumed, fails, nfetch>>

vars == <<fetchVars, plannerVars, queryVars, appVars>>

storeVars == <<category, norows, company, disk, columns_json, all_pickle, loaded>>
argVars == <<mode, retry, overwrite, periods, targets>>
planVars == <<ci, pi, results, results_ts, col_dict, need_output_columns>>
dirVars == <<category, norows, disk, columns_json, all_pickle, loaded>>
workerVars == <<stop_fetch, clock, pc, argVars, planVars, retry_time, plan,
                outcome, exc, calls, sunk, quota_at, resp, resumed, fails, nfetch>>

Exists(t) == disk[t] # None
ExistTickers == {t \in DiskTickers : Exists(t)}

\* The entity chunks of the running plan (get_company makes one call that
\* names no entity).
Chunks == IF mode = "company" THEN << <<>> >> ELSE SlicedTickers(targets)

\* load_quarter / load_indicator: the category loads only if all.pickle and
\* columns.json are both there.
LoadElem(pkl, json) ==
    IF pkl # None /\ json # None
    THEN Some([data |-> Get(pkl), dic |-> Get(json)])
    ELSE None

DiskWith(S) == [t \in DiskTickers |-> IF t \in S THEN Some(OldRows(t)) ELSE None]

\* The files a store may find at construction: none, those of an interrupted
\* fetch together with one of a ticker the company list lacks, or all.
\* A file of zero bytes holds no rows (and no header).
EmptyFile == <<>>
InitDisks ==
    {DiskWith({}), DiskWith({1, UnknownTicker}), DiskWith(Tickers),
     [DiskWith(Tickers) EXCEPT ![1] = Some(EmptyFile)]}

\* What the source lacks: nothing, one period chunk of ticker 1 (the first or
\* the second), or every row of every ticker.
MaxChunks == Ceil(MaxYears + 1, MAX_NUM_YEAR)
NoRowsChoices == {{}, {<<1, 1>>}, {<<1, 2>>}, Tickers \X (1..MaxChunks)}

AllDf(d) == [t \in {x \in DiskTickers : d[x] # None} |-> Get(d[t])]

\* The worker before any operation.
InitWorker ==
    /\ stop_fetch = FALSE
    /\ clock = 0
    /\ pc = "idle"
    /\ mode = "company"
    /\ retry = -1
    /\ overwrite = FALSE
    /\ periods = <<>>
    /\ targets = <<>>
    /\ ci = 1
    /\ pi = 1
    /\ results = <<>>
    /\ results_ts = <<>>
    /\ col_dict = None
    /\ retry_time = -1
    /\ need_output_columns = FALSE
    /\ plan = "none"
    /\ outcome = "none"
    /\ exc = "none"
    /\ calls = <<>>
    /\ sunk = <<>>
    /\ quota_at = -1
    /\ resp = "none"
    /\ resumed = FALSE
    /\ fails = 0
    /\ nfetch = 0

\* The worker as it is on a store on which no fetch has run.
ResetWorker ==
    /\ stop_fetch' = FALSE
    /\ clock' = 0
    /\ pc' = "idle"
    /\ mode' = "company"
    /\ retry' = -1
    /\ overwrite' = FALSE
    /\ periods' = <<>>
    /\ targets' = <<>>
    /\ ci' = 1
    /\ pi' = 1
    /\ results' = <<>>
    /\ results_ts' = <<>>
    /\ col_dict' = None
    /\ retry_time' = -1
    /\ need_output_columns' = FALSE
    /\ plan' = "none"
    /\ outcome' = "none"
    /\ exc' = "none"
    /\ calls' = <<>>
    /\ sunk' = <<>>
    /\ quota_at' = -1
    /\ resp' = "none"
    /\ resumed' = FALSE
    /\ fails' = 0
    /\ nfetch' = 0

\* The planners not applied, no store in the application.
NoAnswer ==
    [kind |-> "none", exc |-> "none", query |-> <<>>, vals |-> <<>>,
     asked |-> <<>>, evals |-> <<>>]
PlannerIdle == fn = "none" /\ arg = <<>> /\ out = <<>>
QueryIdle ==
    /\ bcdata = FALSE
    /\ quarter = None
    /\ indicator = None
    /\ plot_caches = <<>>
    /\ answer = NoAnswer

\* The application before any request: no fetch thread, the Fetch control
\* enabled, the Stop control disabled (Application.__init__, FetchFrame).
ControlsIdle ==
    /\ fetch_thread = None
    /\ fetch_btn = "normal"
    /\ stop_btn = "disabled"
AppIdle ==
    /\ ControlsIdle
    /\ threads = <<>>
    /\ main = [pc |-> "mainloop", exc |-> "none"]

\* A root directory that holds nothing.
EmptyStore ==
    /\ category = "quarter"
    /\ norows = {}
    /\ company = None
    /\ disk = DiskWith({})
    /\ columns_json = None
    /\ all_pickle = None
    /\ loaded = None

Init ==
    /\ category \in {"quarter", "indicator"}
    /\ norows \in NoRowsChoices
    /\ company \in {None, Some(CompanyList)}
    /\ disk \in InitDisks
    /\ columns_json = IF \E t \in DiskTickers : disk[t] # None THEN Some("A") ELSE None
    /\ all_pickle = IF \E t \in DiskTickers : disk[t] # None THEN Some(AllDf(disk)) ELSE None
    /\ loaded = LoadElem(all_pickle, columns_json)
    /\ InitWorker
    /\ PlannerIdle
    /\ QueryIdle
    /\ AppIdle


\* ---------------------------------------------------------- shared pieces
\* Variant: on the way out of an exception the consolidation still runs.
Raise_finally(e) ==
    /\ pc' = "consolidate"
    /\ outcome' = "running"
    /\ exc' = e

\* An exception leaves the operation: it reaches the caller of fetch_*.
\* Nothing on disk is touched on the way out (no handler, no rollback).
Raise(e) ==
    /\ pc' = "idle"
    /\ outcome' = "raised"
    /\ exc' = e

\* The files the sink has written in the running (or last) operation.
SunkFiles == {sunk[i][1] : i \in {j \in 1..Len(sunk) : sunk[j][2] # None}}

\* The values every operation starts from.
StartValues ==
    /\ stop_fetch' = FALSE
    /\ clock' = 0
    /\ ci' = 1
    /\ pi' = 1
    /\ results' = <<>>
    /\ results_ts' = <<>>
    /\ col_dict' = None
    /\ retry_time' = -1
    /\ calls' = <<>>
    /\ sunk' = <<>>
    /\ quota_at' = -1
    /\ resp' = "none"
    /\ nfetch' = nfetch + 1
    /\ fails' = fails

\* Variant: the files on disk are not subtracted.
TargetsOf_all(tickers, exist, ow) == SortedSeq(Range(tickers))

\* Variant: an overwriting fetch refreshes every file of the directory.
TargetsOf_disk(tickers, exist, ow) ==
    IF ~ow THEN SortedSeq(Range(tickers) \ exist)
    ELSE SortedSeq(Range(tickers) \cup exist)

\* set(tickers) - set(exist_tickers) unless overwrite; then sorted.
TargetsOf(tickers, exist, ow) ==
    IF ~ow THEN SortedSeq(Range(tickers) \ exist) ELSE SortedSeq(Range(tickers))

\* Variant: the loop head does not look at the flag.
StopRequested_never == FALSE

\* "while not self.stop_fetch": what the loop head reads.
StopRequested == stop_fetch

\* "datetime.now() < retry_time": the attempt has to wait.
MustWait(now, rt) == now < rt

\* Variant: the quota wait uses the configured interval.
QuotaRetryTime_interval(now, r) == now + r

\* retry_time after a quota-exceeded response.
QuotaRetryTime(now, r) == now + DAY

\* retry_time after any other error, when retrying.
ErrorRetryTime(now, r) == now + r

\* Variant: the test for disabled retries is off by one.
RetryDisabled_off(r) == r < -1

\* "if retry < 0: raise".
RetryDisabled(r) == r < 0

\* Variant: the column definitions are not compared.
ColDictMismatch_never(cd, col) == FALSE

\* "elif col_dict != d['column_description']".
ColDictMismatch(cd, col) == cd # None /\ Get(cd) # col

\* Variant: an entity without data so far stays without data.
Merge_dropNoData(old, df) ==
    IF old = None THEN None
    ELSE IF df # None THEN Some(Get(old) \o Get(df))
    ELSE old

\* get_quarter's merge of one entity's table with the next period's.
Merge(old, df) ==
    IF old = None THEN df
    ELSE IF df # None THEN Some(Get(old) \o Get(df))
    ELSE old

\* The answers in which the source repeats a key: for ticker 2 and period
\* chunk 1 it gives a record of quarter 2, one of quarter 1 and another
\* record of quarter 2.
Repeated == {<<2, 1>>}

\* l = d[str(t)] of a successful answer for period chunk p, in the order of
\* arrival.
Records(t, p) ==
    IF <<t, p>> \in norows THEN <<>>
    ELSE IF <<t, p>> \in Repeated
    THEN << <<t, p, 2, 1>>, <<t, p, 1, 2>>, <<t, p, 2, 3>> >>
    ELSE << <<t, p, 1, 1>> >>

\* The index of a record: ticker, fiscal year (of chunk p), fiscal quarter.
Key(r) == <<r[1], r[2], r[3]>>
KeyLess(a, b) ==
    \/ a[1] < b[1]
    \/ (a[1] = b[1] /\ a[2] < b[2])
    \/ (a[1] = b[1] /\ a[2] = b[2] /\ a[3] < b[3])

\* df.sort_index(): ascending by the index, records of one index in the
\* order they had.
RECURSIVE SortIndex(_)
SortIndex(l) ==
    IF l = <<>> THEN <<>>
    ELSE LET least == {i \in DOMAIN l : \A j \in DOMAIN l : ~KeyLess(Key(l[j]), Key(l[i]))}
             i == CHOOSE x \in least : \A y \in least : x <= y
         IN  <<l[i]>> \o SortIndex(SubSeq(l, 1, i - 1) \o SubSeq(l, i + 1, Len(l)))

\* Variant: of the records of one index the first is kept.
DropDuplicated_first(l) ==
    LET keep == {i \in DOMAIN l : \A j \in 1..(i - 1) : Key(l[j]) # Key(l[i])}
        idx == SortedSeq(keep)
    IN  [i \in DOMAIN idx |-> l[idx[i]]]

\* df[~df.index.duplicated(keep="last")]
DropDuplicated(l) ==
    LET keep == {i \in DOMAIN l : \A j \in (i + 1)..Len(l) : Key(l[j]) # Key(l[i])}
        idx == SortedSeq(keep)
    IN  [i \in DOMAIN idx |-> l[idx[i]]]

\* The table made of l: "l is None or len(l) < 1" gives None; get_quarter
\* sorts the records and drops repeated indexes, get_indicator takes l[0].
Df(t, p) ==
    LET l == Records(t, p)
    IN  IF Len(l) < 1 THEN None
        ELSE IF mode = "quarter" THEN Some(DropDuplicated(SortIndex(l)))
        ELSE Some(<<l[1]>>)

\* The column_description an answer may carry: the source's own, or (an
\* anomaly) another one.
ColChoices == IF fails < MaxFails THEN ColDicts ELSE {"A"}
AfterCol(col) == IF col = "A" THEN fails ELSE fails + 1

\* Variant: for an entity without data a file without content is written.
WriteCsv_truncate(d, ts, dfs) ==
    [t \in DiskTickers |->
        IF \E j \in 1..Len(ts) : ts[j] = t
        THEN LET df == dfs[CHOOSE j \in 1..Len(ts) : ts[j] = t]
             IN  IF df = None THEN Some(EmptyFile) ELSE df
        ELSE d[t]]

\* _write_csv over the entities ts of a chunk: a file per entity whose table
\* is not None.
WriteCsv(d, ts, dfs) ==
    [t \in DiskTickers |->
        IF \E j \in 1..Len(ts) : ts[j] = t /\ dfs[j] # None
        THEN dfs[CHOOSE j \in 1..Len(ts) : ts[j] = t /\ dfs[j] # None]
        ELSE d[t]]

\* Variant: the sink is not invoked for an entity without data.
SinkChunk_skipNoData(ts, dfs, cd) ==
    /\ disk' = WriteCsv(disk, ts, dfs)
    /\ columns_json' = IF need_output_columns THEN Some(cd) ELSE columns_json
    /\ need_output_columns' = FALSE
    /\ LET HasData(e) == e[2] # None
       IN  sunk' = sunk \o SelectSeq([j \in 1..Len(ts) |-> <<ts[j], dfs[j]>>], HasData)
    /\ results' = results \o dfs
    /\ results_ts' = <<>>
    /\ pi' = 1
    /\ IF ci < Len(Chunks)
       THEN ci' = ci + 1 /\ pc' = "ready" /\ plan' = plan
       ELSE ci' = ci /\ pc' = "consolidate" /\ plan' = "completed"

\* The sink invocations of a chunk, and the end of the chunk.
SinkChunk(ts, dfs, cd) ==
    /\ disk' = WriteCsv(disk, ts, dfs)
    /\ columns_json' = IF need_output_columns THEN Some(cd) ELSE columns_json
    /\ need_output_columns' = FALSE
    /\ sunk' = sunk \o [j \in 1..Len(ts) |-> <<ts[j], dfs[j]>>]
    /\ results' = results \o dfs
    /\ results_ts' = <<>>
    /\ pi' = 1
    /\ IF ci < Len(Chunks)
       THEN ci' = ci + 1 /\ pc' = "ready" /\ plan' = plan
       ELSE ci' = ci /\ pc' = "consolidate" /\ plan' = "completed"

\* The entity chunk in progress (ts).
ChunkNow == IF pc = "attempt" THEN Chunks[ci] ELSE <<>>

Idle == pc = "idle" /\ nfetch < MaxFetches

\* ------------------------------------------------------------- operations
\* BCData.fetch_company up to the call of api.get_company.
StartCompany(r, ow) ==
    /\ Idle
    /\ StartValues
    /\ mode' = "company"
    /\ retry' = r
    /\ overwrite' = ow
    /\ periods' = << <<>> >>
    /\ targets' = <<>>
    /\ need_output_columns' = FALSE
    /\ resumed' = FALSE
    /\ exc' = "none"
    /\ IF company # None /\ ~ow
       THEN pc' = "idle" /\ plan' = "none" /\ outcome' = "returned"
       ELSE pc' = "ready" /\ plan' = "running" /\ outcome' = "running"
    /\ UNCHANGED storeVars

\* BCData.__fetch_elem up to the call of api.get_quarter / get_indicator.
StartElem(r, ow, cfg) ==
    /\ Idle
    /\ StartValues
    /\ mode' = category
    /\ retry' = r
    /\ overwrite' = ow
    /\ IF company = None
       THEN /\ Raise("RuntimeError")
            /\ plan' = "none"
            /\ targets' = <<>>
            /\ periods' = <<>>
            /\ need_output_columns' = FALSE
            /\ resumed' = FALSE
       ELSE /\ targets' = TargetsOf(Get(company), ExistTickers, ow)
            /\ periods' = IF category = "quarter"
                          THEN SlicedQuarters(<<cfg[1], 1>>, <<cfg[2], 4>>)
                          ELSE << <<>> >>
            /\ exc' = "none"
            /\ outcome' = "running"
            /\ resumed' = (/\ mode \in {"quarter", "indicator"}
                           /\ plan \in {"stopped", "raised"}
                           /\ SunkFiles # {}
                           /\ ~ow)
            /\ IF Len(targets') < 1
               THEN /\ pc' = "consolidate"
                    /\ plan' = "none"
                    /\ need_output_columns' = FALSE
               ELSE /\ pc' = "ready"
                    /\ plan' = "running"
                    /\ need_output_columns' = (ow \/ columns_json = None)
    /\ UNCHANGED storeVars

\* __fetch_safe, the loop head: the stop flag ends the plan with
\* BCFetchStopped, which get_* catches and turns into a normal return.
Ready ==
    /\ pc = "ready"
    /\ IF StopRequested
       THEN /\ plan' = "stopped"
            /\ pc' = IF mode = "company" THEN "persist" ELSE "consolidate"
       ELSE /\ plan' = plan
            /\ pc' = "attempt"
    /\ UNCHANGED <<storeVars, argVars, planVars, stop_fetch, clock, retry_time,
                   outcome, exc, calls, sunk, quota_at, resp, resumed, fails,
                   nfetch>>

\* __fetch_safe, line 168: the name sleep is not defined in bc_api.py (only
\* the module time is imported), so the first poll of a wait raises NameError,
\* outside the try statement.
Sleep ==
    /\ pc = "attempt"
    /\ MustWait(clock, retry_time)
    /\ Raise("NameError")
    /\ plan' = "raised"
    /\ UNCHANGED <<storeVars, argVars, planVars, stop_fetch, clock, retry_time,
                   calls, sunk, quota_at, resp, resumed, fails, nfetch>>

CanCall == pc = "attempt" /\ ~MustWait(clock, retry_time)

\* The external call answers "Limit Exceeded" (BCExceededFetchError).
CallQuota ==
    /\ CanCall
    /\ fails < MaxFails
    /\ calls' = Append(calls, <<ci, pi, "quota">>)
    /\ fails' = fails + 1
    /\ resp' = "quota"
    /\ quota_at' = clock
    /\ retry_time' = QuotaRetryTime(clock, retry)
    /\ pc' = "ready"
    /\ UNCHANGED <<storeVars, argVars, planVars, stop_fetch, clock, plan,
                   outcome, exc, sunk, resumed, nfetch>>

\* Variant: a failed attempt that is retried leaves an entry in the results.
CallError_contributes ==
    /\ CanCall
    /\ fails < MaxFails
    /\ calls' = Append(calls, <<ci, pi, "error">>)
    /\ fails' = fails + 1
    /\ resp' = "error"
    /\ IF RetryDisabled(retry)
       THEN /\ Raise("BCFetchError")
            /\ plan' = "raised"
            /\ UNCHANGED <<retry_time, results>>
       ELSE /\ retry_time' = ErrorRetryTime(clock, retry)
            /\ pc' = "ready"
            /\ results' = Append(results, None)
            /\ UNCHANGED <<plan, outcome, exc>>
    /\ UNCHANGED <<storeVars, argVars, ci, pi, results_ts, col_dict,
                   need_output_columns, stop_fetch, clock, sunk, quota_at,
                   resumed, nfetch>>

\* The external call fails in any other way (BCFetchError, a transport error).
CallError ==
    /\ CanCall
    /\ fails < MaxFails
    /\ calls' = Append(calls, <<ci, pi, "error">>)
    /\ fails' = fails + 1
    /\ resp' = "error"
    /\ IF RetryDisabled(retry)
       THEN /\ Raise("BCFetchError")
            /\ plan' = "raised"
            /\ UNCHANGED retry_time
       ELSE /\ retry_time' = ErrorRetryTime(clock, retry)
            /\ pc' = "ready"
            /\ UNCHANGED <<plan, outcome, exc>>
    /\ UNCHANGED <<storeVars, argVars, planVars, stop_fetch, clock, sunk,
                   quota_at, resumed, nfetch>>

\* get_quarter, one successful call and all it does with the answer.
CallOkQuarter(col) ==
    /\ CanCall
    /\ mode = "quarter"
    /\ calls' = Append(calls, <<ci, pi, col>>)
    /\ resp' = col
    /\ fails' = AfterCol(col)
    /\ LET ts == ChunkNow
           dfs == [j \in 1..Len(ts) |-> Df(ts[j], pi)]
           merged == IF pi < 2 THEN dfs
                     ELSE [j \in 1..Len(ts) |-> Merge(results_ts[j], dfs[j])]
           cd == IF col_dict = None THEN col ELSE Get(col_dict)
       IN  IF ColDictMismatch(col_dict, col)
           THEN /\ Raise("RuntimeError")
                /\ plan' = "raised"
                /\ UNCHANGED <<storeVars, planVars, retry_time, sunk>>
           ELSE /\ col_dict' = Some(cd)
                /\ retry_time' = -1
                /\ UNCHANGED <<outcome, exc, category, norows, company,
                               all_pickle, loaded>>
                /\ IF pi < Len(periods)
                   THEN /\ results_ts' = merged
                        /\ pi' = pi + 1
                        /\ pc' = "ready"
                        /\ UNCHANGED <<disk, columns_json, need_output_columns,
                                       sunk, results, ci, plan>>
                   ELSE SinkChunk(ts, merged, cd)
    /\ UNCHANGED <<argVars, stop_fetch, clock, quota_at, resumed, nfetch>>

\* get_indicator, one successful call and all it does with the answer.
CallOkIndicator(col) ==
    /\ CanCall
    /\ mode = "indicator"
    /\ calls' = Append(calls, <<ci, pi, col>>)
    /\ resp' = col
    /\ fails' = AfterCol(col)
    /\ LET ts == ChunkNow
           dfs == [j \in 1..Len(ts) |-> Df(ts[j], 1)]
           cd == IF col_dict = None THEN col ELSE Get(col_dict)
       IN  IF ColDictMismatch(col_dict, col)
           THEN /\ Raise("RuntimeError")
                /\ plan' = "raised"
                /\ UNCHANGED <<storeVars, planVars, retry_time, sunk>>
           ELSE /\ col_dict' = Some(cd)
                /\ retry_time' = -1
                /\ UNCHANGED <<outcome, exc, category, norows, company,
                               all_pickle, loaded>>
                /\ SinkChunk(ts, dfs, cd)
    /\ UNCHANGED <<argVars, stop_fetch, clock, quota_at, resumed, nfetch>>

\* get_company, the successful call: the answer becomes the result.
CallOkCompany(col) ==
    /\ CanCall
    /\ mode = "company"
    /\ calls' = Append(calls, <<ci, pi, col>>)
    /\ resp' = col
    /\ fails' = AfterCol(col)
    /\ col_dict' = Some(col)
    /\ retry_time' = -1
    /\ plan' = "completed"
    /\ pc' = "persist"
    /\ UNCHANGED <<storeVars, argVars, ci, pi, results, results_ts,
                   need_output_columns, stop_fetch, clock, outcome, exc, sunk,
                   quota_at, resumed, nfetch>>

\* fetch_company after get_company: a stopped get_company returns
\* (None, {}) and df.to_csv fails on None; otherwise company.csv and
\* columns.json are written and load_company reads them.
FinishCompany ==
    /\ pc = "persist"
    /\ IF plan = "stopped"
       THEN Raise("AttributeError") /\ UNCHANGED company
       ELSE /\ company' = Some(CompanyList)
            /\ pc' = "idle"
            /\ outcome' = "returned"
            /\ UNCHANGED exc
    /\ UNCHANGED <<category, norows, disk, columns_json, all_pickle, loaded,
                   argVars, planVars, stop_fetch, clock, retry_time, plan,
                   calls, sunk, quota_at, resp, resumed, fails, nfetch>>

\* Variant: a cancelled plan removes the files it has written before the
\* consolidation.
FinishElem_rollback ==
    /\ pc = "consolidate"
    /\ LET d2 == IF plan = "stopped"
                 THEN [t \in DiskTickers |-> IF t \in SunkFiles THEN None ELSE disk[t]]
                 ELSE disk
       IN  /\ disk' = d2
           /\ IF \A t \in DiskTickers : d2[t] = None
              THEN Raise("ValueError") /\ UNCHANGED <<all_pickle, loaded>>
              ELSE IF \E t \in DiskTickers : d2[t] = Some(EmptyFile)
              THEN Raise("EmptyDataError") /\ UNCHANGED <<all_pickle, loaded>>
              ELSE /\ all_pickle' = Some(AllDf(d2))
                   /\ loaded' = LoadElem(all_pickle', columns_json)
                   /\ pc' = "idle"
                   /\ outcome' = "returned"
                   /\ UNCHANGED exc
    /\ UNCHANGED <<category, norows, company, columns_json, argVars,
                   planVars, stop_fetch, clock, retry_time, plan, calls, sunk,
                   quota_at, resp, resumed, fails, nfetch>>

\* __fetch_elem after get_*: __make_all_pickle (pd.concat of an empty list
\* raises ValueError, pd.read_csv of a file of zero bytes EmptyDataError) and
\* the reload of the category.
FinishElem ==
    /\ pc = "consolidate"
    /\ IF ExistTickers = {}
       THEN Raise("ValueError") /\ UNCHANGED <<all_pickle, loaded>>
       ELSE IF \E t \in ExistTickers : disk[t] = Some(EmptyFile)
       THEN Raise("EmptyDataError") /\ UNCHANGED <<all_pickle, loaded>>
       ELSE /\ all_pickle' = Some(AllDf(disk))
            /\ loaded' = LoadElem(all_pickle', columns_json)
            /\ pc' = "idle"
            /\ outcome' = "returned"
            /\ UNCHANGED exc
    /\ UNCHANGED <<category, norows, company, disk, columns_json, argVars,
                   planVars, stop_fetch, clock, retry_time, plan, calls, sunk,
                   quota_at, resp, resumed, fails, nfetch>>

\* Variant: a load that finds per-entity files without all.pickle rebuilds it.
Load_rebuild ==
    /\ Idle
    /\ StartValues
    /\ mode' = "load"
    /\ retry' = -1
    /\ overwrite' = FALSE
    /\ periods' = <<>>
    /\ targets' = <<>>
    /\ need_output_columns' = FALSE
    /\ resumed' = FALSE
    /\ plan' = "none"
    /\ exc' = "none"
    /\ outcome' = "returned"
    /\ pc' = "idle"
    /\ all_pickle' = IF all_pickle = None /\ ExistTickers # {}
                     THEN Some(AllDf(disk)) ELSE all_pickle
    /\ loaded' = LoadElem(all_pickle', columns_json)
    /\ UNCHANGED <<category, norows, company, disk, columns_json>>

\* BCData.__init__ on the same root directory (the application's exec_load):
\* the category is loaded from all.pickle and columns.json as they are.
Load ==
    /\ Idle
    /\ StartValues
    /\ mode' = "load"
    /\ retry' = -1
    /\ overwrite' = FALSE
    /\ periods' = <<>>
    /\ targets' = <<>>
    /\ need_output_columns' = FALSE
    /\ resumed' = FALSE
    /\ plan' = "none"
    /\ exc' = "none"
    /\ outcome' = "returned"
    /\ pc' = "idle"
    /\ loaded' = LoadElem(all_pickle, columns_json)
    /\ UNCHANGED <<category, norows, company, disk, columns_json, all_pickle>>

\* FetchThread.stop, from the foreground thread while the worker runs.
StopFetch ==
    /\ pc # "idle"
    /\ ~stop_fetch
    /\ stop_fetch' = TRUE
    /\ UNCHANGED <<storeVars, argVars, planVars, clock, pc, retry_time, plan,
                   outcome, exc, calls, sunk, quota_at, resp, resumed, fails,
                   nfetch>>

\* Time passes while an attempt is pending: up to just before the retry time,
\* or up to it.
Tick ==
    /\ pc = "attempt"
    /\ \E c \in {retry_time - 1, retry_time} : c > clock /\ clock' = c
    /\ UNCHANGED <<storeVars, argVars, planVars, stop_fetch, pc, retry_time,
                   plan, outcome, exc, calls, sunk, quota_at, resp, resumed,
                   fails, nfetch>>

\* A step of the fetch orchestrator.
Next ==
    \/ (\E r \in RetryChoices, ow \in BOOLEAN : StartCompany(r, ow)) /\ UNCHANGED sideVars
    \/ (\E r \in RetryChoices, ow \in BOOLEAN, cfg \in ConfigChoices : StartElem(r, ow, cfg))
         /\ UNCHANGED sideVars
    \/ Ready /\ UNCHANGED sideVars
    \/ Sleep /\ UNCHANGED sideVars
    \/ CallQuota /\ UNCHANGED sideVars
    \/ CallError /\ UNCHANGED sideVars
    \/ (\E col \in ColChoices : CallOkQuarter(col)) /\ UNCHANGED sideVars
    \/ (\E col \in ColChoices : CallOkIndicator(col)) /\ UNCHANGED sideVars
    \/ (\E col \in ColChoices : CallOkCompany(col)) /\ UNCHANGED sideVars
    \/ FinishCompany /\ UNCHANGED sideVars
    \/ FinishElem /\ UNCHANGED sideVars
    \/ Load /\ UNCHANGED sideVars
    \/ StopFetch /\ UNCHANGED sideVars
    \/ Tick /\ UNCHANGED sideVars

Spec == Init /\ [][Next]_vars


\* ------------------------------------------------- the planners on their own
Reverse(s) == [i \in 1..Len(s) |-> s[Len(s) + 1 - i]]

\* The entity lists planned: every set of entities, ascending or descending.
TickerLists ==
    {SortedSeq(S) : S \in SUBSET (1..MaxEntities)}
        \cup {Reverse(SortedSeq(S)) : S \in SUBSET (1..MaxEntities)}

\* The quarters a period may start or end with ("2012Q1" is <<2012, 1>>).
Quarters == (FirstYear..(FirstYear + MaxSpan)) \X (1..4)

InitPlanner == EmptyStore /\ InitWorker /\ PlannerIdle /\ QueryIdle /\ AppIdle

\* list(BCAPI.__sliced_tickers_generator(ts))
PlanTickers(ts) ==
    /\ fn' = "tickers"
    /\ arg' = ts
    /\ out' = SlicedTickers(ts)
    /\ UNCHANGED <<fetchVars, queryVars, appVars>>

\* list(BCAPI.__sliced_quarters_generator(s, e))
PlanQuarters(s, e) ==
    /\ fn' = "quarters"
    /\ arg' = <<s, e>>
    /\ out' = SlicedQuarters(s, e)
    /\ UNCHANGED <<fetchVars, queryVars, appVars>>

NextPlanner ==
    \/ \E ts \in TickerLists : PlanTickers(ts)
    \/ \E s \in Quarters, e \in Quarters : PlanQuarters(s, e)

SpecPlanner == InitPlanner /\ [][NextPlanner]_vars


\* ------------------------------------------- the application's plot store
\* A loaded category is a table [cols, nan, err]: its columns, the
\* <<column, ticker>> cells that hold NaN, and the cells for which the
\* evaluation of the column raises.  The value of another cell is
\* <<category, column, ticker>> ("i" for the indicator category, "q" for the
\* quarterly one).  An expression is a name: "ic" is a column of the
\* indicator category only, "qc" of the quarterly category only, "bc" of
\* both, "zz" of neither.  The per-entity files behind the loaded tables are
\* not represented in SpecQuery.
PlotTickers == 1..MaxPlotTicker
Exprs == {"ic", "qc", "bc", "zz"}
NaN == <<"nan", "", 0>>
\* A loaded category: its columns, the cells that hold no value (nan) and
\* the cells for which evaluating the column's expression raises (err).
IndicatorTables ==
    {[cols |-> {"ic", "bc"}, nan |-> n, err |-> {}] :
        n \in {{}, {"bc"} \X PlotTickers, {<<"bc", 1>>}}}
    \cup {[cols |-> {"ic", "bc"}, nan |-> {}, err |-> {<<"ic", 1>>}]}
QuarterTables ==
    {[cols |-> {"qc", "bc"}, nan |-> n, err |-> {}] :
        n \in {{}, {"bc"} \X PlotTickers}}
    \cup {[cols |-> {"qc", "bc"}, nan |-> {}, err |-> {<<"qc", 1>>}]}
IndicatorChoices == {None} \cup {Some(tab) : tab \in IndicatorTables}
QuarterChoices == {None} \cup {Some(tab) : tab \in QuarterTables}

\* "c in s" for a column c and an expression s.
Refers(s, c) == s = c

\* eval(op, ...) raises for ticker t: a name that is no column of the table,
\* or an operation that fails on the ticker's rows.
Raises(tab, s, t) == s \notin tab.cols \/ <<s, t>> \in tab.err

\* Variant: an expression that raises for one ticker is lost for all.
Eval_columnLost(kind, tab, s, t) ==
    IF \E u \in PlotTickers : Raises(tab, s, u) THEN NaN
    ELSE IF <<s, t>> \in tab.nan THEN NaN
    ELSE <<kind, s, t>>

\* _get_values for one expression and one ticker: what raises inside the try
\* statement gives NaN.
Eval(kind, tab, s, t) ==
    IF Raises(tab, s, t) THEN NaN
    ELSE IF <<s, t>> \in tab.nan THEN NaN
    ELSE <<kind, s, t>>

\* BCDataQuarter.get_values / BCDataIndicator.get_values: None if no
\* expression refers to a column of the table, else a column per query key.
GetValues(kind, tab, query) ==
    IF \A c \in tab.cols : \A k \in DOMAIN query : ~Refers(query[k], c)
    THEN None
    ELSE Some([k \in DOMAIN query |->
                 [t \in PlotTickers |-> Eval(kind, tab, query[k], t)]])

\* np.isnan(...).all() of a column, and .all().any() of a table.
AllNaN(col) == \A t \in DOMAIN col : col[t] = NaN
AnyAllNaN(tbl) == \E k \in DOMAIN tbl : AllNaN(tbl[k])

\* Line 492 as Python parses it: "A or (B and C)".
LookAtQuarter(i_vals) ==
    i_vals = None \/ (AnyAllNaN(Get(i_vals)) /\ quarter # None)

\* The keys of val_dict in the order plot_scatter_clickable inserts them.
OutputNames == <<"x", "y">>

\* "v in self.plot_caches.columns" and "self.plot_caches[v]".
CacheKeys(caches) == {caches[i][1] : i \in DOMAIN caches}
CacheHit(caches, v) == v \in CacheKeys(caches)
Cached(caches, v) == caches[CHOOSE i \in DOMAIN caches : caches[i][1] = v][2]

\* Variant: a ticker without an indicator value takes the quarterly one.
Choose_perEntity(i_col, q_col) ==
    [t \in DOMAIN i_col |-> IF i_col[t] # NaN THEN i_col[t] ELSE q_col[t]]

\* Lines 498-503, one column: the indicator's unless it is NaN throughout.
Choose(i_col, q_col) == IF ~AllNaN(i_col) THEN i_col ELSE q_col

\* Variant: the columns keep the names of the outputs.
Renamed_byOutput(query, vals) ==
    LET ks == SelectSeq(OutputNames, LAMBDA k : k \in DOMAIN query)
    IN  [i \in DOMAIN ks |-> <<ks[i], vals[ks[i]]>>]

\* Line 512: the columns of vals, left to right, named by their expressions.
Renamed(query, vals) ==
    LET ks == SelectSeq(OutputNames, LAMBDA k : k \in DOMAIN query)
    IN  [i \in DOMAIN ks |-> <<query[ks[i]], vals[ks[i]]>>]

\* Variant: nothing is dropped.
Deduplicated_not(cols) == cols

\* Line 513: of columns with one name only the leftmost is kept.
Deduplicated(cols) ==
    LET keep == {i \in DOMAIN cols : \A j \in 1..(i - 1) : cols[j][1] # cols[i][1]}
        idx == SortedSeq(keep)
    IN  [i \in DOMAIN idx |-> cols[idx[i]]]

Ended(kind, e, vals, caches, asked, evals) ==
    [kind |-> kind, exc |-> e, vals |-> vals, caches |-> caches,
     asked |-> asked, evals |-> evals]

\* BCData.get_plot_values: how it ends, what it returns, the cache after, the
\* query handed to the evaluators and what each evaluator called answered.
GetPlotValues(val_dict) ==
    LET hit == {k \in DOMAIN val_dict : CacheHit(plot_caches, val_dict[k])}
        result == [k \in hit |-> Cached(plot_caches, val_dict[k])]
        query == [k \in DOMAIN val_dict \ hit |-> val_dict[k]]
        i_vals == IF indicator # None
                  THEN GetValues("i", Get(indicator), query) ELSE None
        q_vals == GetValues("q", Get(quarter), query)
        merged == [k \in DOMAIN query |->
                     Choose(Get(i_vals)[k], Get(q_vals)[k])]
        vals == IF LookAtQuarter(i_vals)
                THEN IF i_vals = None THEN q_vals ELSE Some(merged)
                ELSE i_vals
        called == (IF indicator # None THEN {"i"} ELSE {}) \cup
                  (IF LookAtQuarter(i_vals) /\ quarter # None THEN {"q"} ELSE {})
        evals == [e \in called |-> IF e = "i" THEN i_vals ELSE q_vals]
    IN  IF DOMAIN query = {}
        THEN Ended("returned", "none", result, plot_caches, <<>>, <<>>)
        ELSE IF LookAtQuarter(i_vals) /\ quarter = None
        THEN Ended("raised", "AttributeError: get_values", <<>>, plot_caches,
                   query, evals)
        ELSE IF LookAtQuarter(i_vals) /\ i_vals # None /\ q_vals = None
        THEN Ended("raised", "TypeError", <<>>, plot_caches, query, evals)
        ELSE IF vals = None
        THEN Ended("raised", "AttributeError: columns", <<>>, plot_caches,
                   query, evals)
        ELSE Ended("returned", "none", result @@ Get(vals),
                   plot_caches \o Deduplicated(Renamed(query, Get(vals))),
                   query, evals)

\* Variant: the guard for company data is missing.
PlotRefused_noCompany ==
    \/ ~bcdata
    \/ (quarter = None /\ indicator = None)

\* exec_plot's guards: "No data is loaded", "Company data is not loaded",
\* "Both quarter and indicator data are not loaded".
PlotRefused ==
    \/ ~bcdata
    \/ company = None
    \/ (quarter = None /\ indicator = None)

InitQuery == EmptyStore /\ InitWorker /\ PlannerIdle /\ QueryIdle /\ AppIdle

\* Application.exec_load: a store is built from what the root directory holds;
\* no fetch has run on it.
ExecLoad(c, q, i) ==
    /\ bcdata' = TRUE
    /\ company' = c
    /\ quarter' = q
    /\ indicator' = i
    /\ plot_caches' = <<>>
    /\ answer' = NoAnswer
    /\ ResetWorker
    /\ UNCHANGED <<dirVars, plannerVars, appVars>>

\* Application.exec_plot for the expressions x and y, up to the return of
\* get_plot_values; what get_plot_values raises is caught and logged.
ExecPlot(x, y) ==
    /\ LET val_dict == [k \in {"x", "y"} |-> IF k = "x" THEN x ELSE y]
           r == GetPlotValues(val_dict)
       IN  IF PlotRefused
           THEN /\ answer' = [kind |-> "refused", exc |-> "none",
                              query |-> val_dict, vals |-> <<>>,
                              asked |-> <<>>, evals |-> <<>>]
                /\ UNCHANGED plot_caches
           ELSE /\ answer' = [kind |-> r.kind, exc |-> r.exc,
                              query |-> val_dict, vals |-> r.vals,
                              asked |-> r.asked, evals |-> r.evals]
                /\ plot_caches' = r.caches
    /\ UNCHANGED <<fetchVars, plannerVars, appVars, bcdata, quarter, indicator>>

\* What a fetch carried to its end finds at the source: quarterly values for
\* every ticker, no indicator value of "bc".
FetchedQuarter == Some([cols |-> {"qc", "bc"}, nan |-> {}, err |-> {}])
FetchedIndicator ==
    Some([cols |-> {"ic", "bc"}, nan |-> {"bc"} \X PlotTickers, err |-> {}])

\* Variant: the reload empties the cache.
Refetch_invalidate(m) ==
    /\ bcdata
    /\ company # None
    /\ IF m = "quarter"
       THEN quarter # FetchedQuarter /\ quarter' = FetchedQuarter
            /\ UNCHANGED indicator
       ELSE indicator # FetchedIndicator /\ indicator' = FetchedIndicator
            /\ UNCHANGED quarter
    /\ plot_caches' = <<>>
    /\ UNCHANGED <<fetchVars, plannerVars, appVars, bcdata, answer>>

\* fetch_quarter / fetch_indicator carried to its end on the store of the
\* application: load_quarter / load_indicator replace the one category by
\* what the rebuilt all.pickle holds; nothing else of the store is assigned.
Refetch(m) ==
    /\ bcdata
    /\ company # None
    /\ IF m = "quarter"
       THEN quarter # FetchedQuarter /\ quarter' = FetchedQuarter
            /\ UNCHANGED indicator
       ELSE indicator # FetchedIndicator /\ indicator' = FetchedIndicator
            /\ UNCHANGED quarter
    /\ UNCHANGED <<fetchVars, plannerVars, appVars, bcdata, plot_caches, answer>>

\* fetch_quarter / fetch_indicator on a loaded store without company data.
FetchWithoutCompany(r, ow, cfg) ==
    /\ bcdata
    /\ company = None
    /\ StartElem(r, ow, cfg)
    /\ UNCHANGED sideVars

NextQuery ==
    \/ \E c \in {None, Some(CompanyList)}, q \in QuarterChoices,
          i \in IndicatorChoices : ExecLoad(c, q, i)
    \/ \E x \in Exprs, y \in Exprs : ExecPlot(x, y)
    \/ \E r \in RetryChoices, ow \in BOOLEAN, cfg \in ConfigChoices :
          FetchWithoutCompany(r, ow, cfg)
    \/ \E m \in {"quarter", "indicator"} : Refetch(m)

SpecQuery == InitQuery /\ [][NextQuery]_vars


\* ------------------------------------------------ rewriting of expressions
\* BCDataAbs.replace_value_str on strings written as sequences of characters.
SQ == "'"
DQ == "\""
Quotes == {SQ, DQ}
Alphabet == {"a", "b", "+", SQ, DQ}
Expressions == UNION {[1..n -> Alphabet] : n \in 0..MaxExprLen}

\* df.columns as it may be ordered: names that are parts of other names.
ColumnLists ==
    {<< <<"a">> >>, << <<"a">>, <<"a", "b">> >>, << <<"a", "b">>, <<"a">> >>,
     << <<"b">>, <<"a", "b">>, <<"a">> >>}

\* f"{df_name}['{c}']"
Accessor(df_name, c) == df_name \o <<"[", SQ>> \o c \o <<SQ, "]">>

\* Some element of S is at most every other.
Least(S) == CHOOSE x \in S : \A y \in S : x <= y

\* s.startswith(c)
StartsWith(s, c) == Len(c) <= Len(s) /\ SubSeq(s, 1, Len(c)) = c

\* s.replace(c, r): the occurrences of c from the left, none overlapping.
RECURSIVE StrReplace(_, _, _)
StrReplace(s, c, r) ==
    IF Len(s) < Len(c) THEN s
    ELSE IF StartsWith(s, c)
    THEN r \o StrReplace(SubSeq(s, Len(c) + 1, Len(s)), c, r)
    ELSE <<s[1]>> \o StrReplace(Tail(s), c, r)

\* __replace_val on a match m of the pattern.
replace_val(m, c, df_name) ==
    IF StartsWith(m, <<SQ>>) \/ StartsWith(m, <<DQ>>) THEN m
    ELSE StrReplace(m, c, Accessor(df_name, c))

\* re.sub(r"'[^'\"]*'|\"[^'\"]*\"|[^'\"]*", __replace_val, s): at a quote, the
\* text up to the next quote character if that is the same quote; at a quote
\* where this fails the third alternative matches the empty string and the
\* quote is copied; elsewhere the longest run without a quote.
RECURSIVE ReSub(_, _, _)
ReSub(s, c, df_name) ==
    IF s = <<>> THEN <<>>
    ELSE IF s[1] \in Quotes
    THEN LET js == {j \in 2..Len(s) : s[j] \in Quotes}
         IN  IF js # {} /\ s[Least(js)] = s[1]
             THEN replace_val(SubSeq(s, 1, Least(js)), c, df_name)
                      \o ReSub(SubSeq(s, Least(js) + 1, Len(s)), c, df_name)
             ELSE <<s[1]>> \o ReSub(Tail(s), c, df_name)
    ELSE LET qs == {j \in 1..Len(s) : s[j] \in Quotes}
             n == IF qs = {} THEN Len(s) ELSE Least(qs) - 1
         IN  replace_val(SubSeq(s, 1, n), c, df_name)
                 \o ReSub(SubSeq(s, n + 1, Len(s)), c, df_name)

\* The elements of a list of strings whose length is n, in the list's order.
OfLength(columns, n) == SelectSeq(columns, LAMBDA c : Len(c) = n)

\* Variant: the shortest names first.
LongestFirst_shortest(columns) ==
    LET F[n \in 0..(MaxExprLen + 1)] ==
            IF n = 0 THEN <<>> ELSE F[n - 1] \o OfLength(columns, n)
    IN  F[MaxExprLen + 1]

\* sorted(columns, key=lambda s: len(s), reverse=True): the sort is stable.
LongestFirst(columns) ==
    LET F[n \in 0..(MaxExprLen + 1)] ==
            IF n = 0 THEN <<>>
            ELSE OfLength(columns, n) \o F[n - 1]
    IN  F[MaxExprLen + 1]

\* BCDataAbs.replace_value_str: one pass of re.sub over every string for each
\* column name in turn.
replace_value_str(str_list, columns, df_name) ==
    LET cs == LongestFirst(columns)
        F[i \in 0..Len(cs)] ==
            IF i = 0 THEN str_list
            ELSE [k \in DOMAIN str_list |-> ReSub(F[i - 1][k], cs[i], df_name)]
    IN  F[Len(cs)]

InitRewrite ==
    /\ EmptyStore
    /\ InitWorker
    /\ QueryIdle
    /\ AppIdle
    /\ fn = "none"
    /\ arg \in {<< <<e>>, cl >> : e \in Expressions, cl \in ColumnLists}
    /\ out = <<>>

\* str_list = BCDataAbs.replace_value_str(str_list, columns, "d")
Rewrite ==
    /\ fn = "none"
    /\ fn' = "replace_value_str"
    /\ out' = replace_value_str(arg[1], arg[2], <<"d">>)
    /\ UNCHANGED <<arg, fetchVars, queryVars, appVars>>

NextRewrite == Rewrite

SpecRewrite == InitRewrite /\ [][NextRewrite]_vars


\* ---------------------------------------------------- the growth rate cagr
\* The function cagr of BCDataQuarter.get_values.  A series is a sequence of
\* <<fiscal year, value>>, the years ascending; a value is None (missing) or
\* Some(number).  The result is None (np.nan) or Some(<<e, s, k>>) for the
\* number ((e / s) ** (1 / k) - 1) * 100.0.
CagrYears == 1..MaxCagrYear
CagrValues == {None} \cup {Some(v) : v \in -1..MaxValue}
SeriesOver(Y) ==
    LET ys == SortedSeq(Y)
    IN  {[i \in DOMAIN ys |-> <<ys[i], v[i]>>] : v \in [DOMAIN ys -> CagrValues]}
AllSeries == UNION {SeriesOver(Y) : Y \in SUBSET CagrYears}
NChoices == {None} \cup {Some(n) : n \in 0..MaxCagrYear}

\* series.isnull().all()
IsNullAll(series) == \A i \in DOMAIN series : series[i][2] = None

\* years.index(sy): the first position of sy, None if it raises.
YearIndex(series, sy) ==
    LET at == {i \in DOMAIN series : series[i][1] = sy}
    IN  IF at = {} THEN None ELSE Some(Least(at))

\* Variant: zero passes for a start or end value.
Positive_orZero(v) == v # None /\ Get(v) >= 0

\* "x > 0" for a float x, which is False for nan.
Positive(v) == v # None /\ Get(v) > 0

\* series[i:] with missing values filled from the value before (the fill of
\* pct_change).
Padded(series, i) ==
    LET F[k \in i..Len(series)] ==
            IF series[k][2] # None \/ k = i THEN series[k][2] ELSE F[k - 1]
    IN  [k \in 1..(Len(series) - i + 1) |-> F[i + k - 1]]

\* (b - a) / a < 0 for floats a and b: the sign of a quotient, minus
\* infinity for a negative number over zero, nan for zero over zero.
ChangeNegative(a, b) ==
    \/ (a > 0 /\ b < a)
    \/ (a < 0 /\ b > a)
    \/ (a = 0 /\ b < 0)

\* (series[i:].pct_change().dropna() < 0).any()
AnyDecline(series, i) ==
    LET w == Padded(series, i)
    IN  \E k \in 2..Len(w) :
            /\ w[k - 1] # None
            /\ w[k] # None
            /\ ChangeNegative(Get(w[k - 1]), Get(w[k]))

cagr(series, n, all_plus) ==
    IF IsNullAll(series) \/ Len(series) < 2 THEN None
    ELSE LET ey == series[Len(series)][1]
             e == series[Len(series)][2]
             sy == IF n = None THEN series[1][1] ELSE ey - Get(n)
             i == YearIndex(series, sy)
         IN  IF i = None THEN None
             ELSE LET s == series[Get(i)][2]
                  IN  IF ~(Positive(s) /\ Positive(e)) THEN None
                      ELSE IF all_plus /\ AnyDecline(series, Get(i)) THEN None
                      ELSE Some(<<Get(e), Get(s), ey - sy>>)

InitCagr ==
    /\ EmptyStore
    /\ InitWorker
    /\ QueryIdle
    /\ AppIdle
    /\ fn = "none"
    /\ arg \in AllSeries \X NChoices \X BOOLEAN
    /\ out = <<>>

\* v = cagr(series, n, all_plus) inside eval.
ApplyCagr ==
    /\ fn = "none"
    /\ fn' = "cagr"
    /\ out' = cagr(arg[1], arg[2], arg[3])
    /\ UNCHANGED <<arg, fetchVars, queryVars, appVars>>

NextCagr == ApplyCagr

SpecCagr == InitCagr /\ [][NextCagr]_vars


\* ------------------------------------------ the application and its threads
\* The foreground thread runs Tk's mainloop and the callbacks of the Fetch,
\* Stop and Plot controls; every Fetch request creates a FetchThread that
\* runs _exec_fetch_inner.  The steps of the threads interleave; a step is
\* one statement that reads or writes what another thread writes or reads.
\* Of the fetch operations a run keeps what this level sees: the polls of
\* the stop flag, the external calls and how the operation ends.  The
\* store's content stays as loaded.
Categories == <<"company", "quarter", "indicator">>
DoChoices == SUBSET {"company", "quarter", "indicator"}

\* Variant: the thread is given the BCAPI instance of the thread before it.
FetchThread_sameInstance(do) ==
    [pc |-> "check", k |-> 1, do |-> do, ncall |-> 0,
     stop_fetch |-> IF threads = <<>> THEN FALSE
                    ELSE threads[Len(threads)].stop_fetch,
     observed |-> FALSE]

\* FetchThread(api_key, _exec_fetch_inner) started: a BCAPI instance of its
\* own, at the first category of _exec_fetch_inner.  do holds the categories
\* whose check box is set, ncall counts the external calls of the category
\* in progress, observed tells that this thread has read the stop flag as
\* set.
FetchThread(do) ==
    [pc |-> "check", k |-> 1, do |-> do, ncall |-> 0, stop_fetch |-> FALSE,
     observed |-> FALSE]

\* Variant: a disabled button still invokes its command.
Invokes_disabled(btn) == btn \in {"normal", "disabled"}

\* A ttk.Button invokes its command unless it is disabled.
Invokes(btn) == btn = "normal"

\* A worker that has not cleared the handle yet, and one inside an external
\* call.
Fetching(th) == th.pc \in {"check", "poll", "call", "wait", "clear"}
InFlight == {w \in DOMAIN threads : Fetching(threads[w])}
Alive == {w \in DOMAIN threads : threads[w].pc # "done"}
Calling == {w \in DOMAIN threads : threads[w].pc = "call"}

InitApp ==
    /\ category = "quarter"
    /\ norows = {}
    /\ disk = DiskWith({})
    /\ columns_json = None
    /\ all_pickle = None
    /\ loaded = None
    /\ InitWorker
    /\ PlannerIdle
    /\ AppIdle
    /\ bcdata \in BOOLEAN
    /\ company = IF bcdata THEN Some(CompanyList) ELSE None
    /\ quarter = IF bcdata THEN FetchedQuarter ELSE None
    /\ indicator = None
    /\ plot_caches = <<>>
    /\ answer = NoAnswer

\* Application.exec_fetch, the callback of the Fetch control:
\* _enable_widgets(True), then the thread is created and started.
ExecFetch(do) ==
    /\ main.pc = "mainloop"
    /\ Invokes(fetch_btn)
    /\ Len(threads) < MaxRuns
    /\ fetch_btn' = "disabled"
    /\ stop_btn' = "normal"
    /\ threads' = Append(threads, FetchThread(do))
    /\ fetch_thread' = Some(Len(threads) + 1)
    /\ UNCHANGED <<main, fetchVars, plannerVars, queryVars>>

\* _exec_fetch_inner: "if do_fetch_x and not bcapi.stop_fetch:" for the next
\* category, the call of fetch_x on a store that is None raising; past the
\* last category the thread goes on to clear the handle.
CheckCategory(w) ==
    LET th == threads[w]
    IN  /\ th.pc = "check"
        /\ threads' = [threads EXCEPT ![w] =
               IF th.k > Len(Categories) THEN [th EXCEPT !.pc = "clear"]
               ELSE IF Categories[th.k] \notin th.do
                    THEN [th EXCEPT !.k = th.k + 1]
               ELSE IF th.stop_fetch
                    THEN [th EXCEPT !.k = th.k + 1, !.observed = TRUE]
               ELSE IF ~bcdata THEN [th EXCEPT !.pc = "clear"]
               ELSE [th EXCEPT !.pc = "poll", !.ncall = 0]]
        /\ UNCHANGED <<fetch_thread, fetch_btn, stop_btn, main, fetchVars,
                       plannerVars, queryVars>>

\* BCAPI.__fetch_safe: "while not self.stop_fetch:".  With the flag unset the
\* external call is issued, or, after a quota answer, the wait is entered
\* and raises NameError.  With the flag set the operation is cancelled:
\* fetch_company raises on the missing result, fetch_quarter and
\* fetch_indicator return or raise while rebuilding the cache (raised tells
\* which).
Poll(w, raised) ==
    LET th == threads[w]
    IN  /\ th.pc \in {"poll", "wait"}
        /\ threads' = [threads EXCEPT ![w] =
               IF ~th.stop_fetch
               THEN IF th.pc = "wait"
                    THEN [th EXCEPT !.pc = "clear", !.ncall = 0]
                    ELSE [th EXCEPT !.pc = "call", !.ncall = th.ncall + 1]
               ELSE IF raised \/ Categories[th.k] = "company"
                    THEN [th EXCEPT !.pc = "clear", !.ncall = 0,
                                    !.observed = TRUE]
               ELSE [th EXCEPT !.pc = "check", !.k = th.k + 1, !.ncall = 0,
                               !.observed = TRUE]]
        /\ UNCHANGED <<fetch_thread, fetch_btn, stop_btn, main, fetchVars,
                       plannerVars, queryVars>>

\* The external call returns.  A good answer is followed by the next call of
\* the category (more) or by the end of the operation; a quota answer sets
\* retry_time and leads back to the top of the loop; any other answer ends
\* the operation with an exception (the application passes no retry
\* interval), which _exec_fetch_inner logs.
CallReturns(w, ans, more) ==
    LET th == threads[w]
    IN  /\ th.pc = "call"
        /\ more => (ans = "ok" /\ th.ncall < MaxCalls
                        /\ Categories[th.k] # "company")
        /\ threads' = [threads EXCEPT ![w] =
               IF ans = "error" THEN [th EXCEPT !.pc = "clear", !.ncall = 0]
               ELSE IF ans = "quota" THEN [th EXCEPT !.pc = "wait"]
               ELSE IF more THEN [th EXCEPT !.pc = "poll"]
               ELSE [th EXCEPT !.pc = "check", !.k = th.k + 1, !.ncall = 0]]
        /\ UNCHANGED <<fetch_thread, fetch_btn, stop_btn, main, fetchVars,
                       plannerVars, queryVars>>

\* _exec_fetch_inner: self.fetch_thread = None.  Nothing reads the check
\* boxes' values and the position in the categories from here on; they are
\* dropped.
ClearHandle(w) ==
    /\ threads[w].pc = "clear"
    /\ fetch_thread' = None
    /\ threads' = [threads EXCEPT ![w] =
           [@ EXCEPT !.pc = "fetch_btn", !.do = {}, !.k = 1]]
    /\ UNCHANGED <<fetch_btn, stop_btn, main, fetchVars, plannerVars, queryVars>>

\* _enable_widgets(False) up to fetch_frame.fetch_btn["state"] = "enabled",
\* which ttk takes for "normal".
EnableFetch(w) ==
    /\ threads[w].pc = "fetch_btn"
    /\ fetch_btn' = "normal"
    /\ threads' = [threads EXCEPT ![w].pc = "stop_btn"]
    /\ UNCHANGED <<fetch_thread, stop_btn, main, fetchVars, plannerVars,
                   queryVars>>

\* _enable_widgets(False): fetch_frame.stop_btn["state"] = "disabled"
DisableStop(w) ==
    /\ threads[w].pc = "stop_btn"
    /\ stop_btn' = "disabled"
    /\ threads' = [threads EXCEPT ![w].pc = "log"]
    /\ UNCHANGED <<fetch_thread, fetch_btn, main, fetchVars, plannerVars,
                   queryVars>>

\* _exec_fetch_inner: self.logger.info("END fetch!"), and the thread ends.
LogEnd(w) ==
    /\ threads[w].pc = "log"
    /\ threads' = [threads EXCEPT ![w].pc = "done"]
    /\ UNCHANGED <<fetch_thread, fetch_btn, stop_btn, main, fetchVars,
                   plannerVars, queryVars>>

\* Application.stop_fetch, the callback of the Stop control, up to its test
\* of the handle.
StopCheck ==
    /\ main.pc = "mainloop"
    /\ Invokes(stop_btn)
    /\ stop_btn' = "disabled"
    /\ main' = IF fetch_thread = None THEN main
               ELSE [main EXCEPT !.pc = "stop_fetch"]
    /\ UNCHANGED <<fetch_thread, threads, fetch_btn, fetchVars, plannerVars,
                   queryVars>>

\* Application.stop_fetch: self.fetch_thread.stop(), which reads the handle
\* again; FetchThread.stop sets the flag of the thread's BCAPI instance.
StopAct ==
    /\ main.pc = "stop_fetch"
    /\ IF fetch_thread = None
       THEN /\ main' = [pc |-> "mainloop", exc |-> "AttributeError"]
            /\ UNCHANGED threads
       ELSE /\ main' = [main EXCEPT !.pc = "mainloop"]
            /\ threads' = [threads EXCEPT ![Get(fetch_thread)].stop_fetch = TRUE]
    /\ UNCHANGED <<fetch_thread, fetch_btn, stop_btn, fetchVars, plannerVars,
                   queryVars>>

\* Application.exec_plot, the callback of the Plot control, up to its call of
\* get_plot_values.
PlotBegin ==
    /\ main.pc = "mainloop"
    /\ ~PlotRefused
    /\ main' = [main EXCEPT !.pc = "exec_plot"]
    /\ UNCHANGED <<fetch_thread, threads, fetch_btn, stop_btn, fetchVars,
                   plannerVars, queryVars>>

\* Application.exec_plot from the return of get_plot_values on.
PlotEnd ==
    /\ main.pc = "exec_plot"
    /\ main' = [main EXCEPT !.pc = "mainloop"]
    /\ UNCHANGED <<fetch_thread, threads, fetch_btn, stop_btn, fetchVars,
                   plannerVars, queryVars>>

NextApp ==
    \/ \E do \in DoChoices : ExecFetch(do)
    \/ \E w \in DOMAIN threads : CheckCategory(w)
    \/ \E w \in DOMAIN threads, raised \in BOOLEAN : Poll(w, raised)
    \/ \E w \in DOMAIN threads, ans \in {"ok", "quota", "error"},
          more \in BOOLEAN : CallReturns(w, ans, more)
    \/ \E w \in DOMAIN threads : ClearHandle(w)
    \/ \E w \in DOMAIN threads : EnableFetch(w)
    \/ \E w \in DOMAIN threads : DisableStop(w)
    \/ \E w \in DOMAIN threads : LogEnd(w)
    \/ StopCheck
    \/ StopAct
    \/ PlotBegin
    \/ PlotEnd

SpecApp == InitApp /\ [][NextApp]_vars


\* ------------------------------------------------------------------ claims
ElemMode == mode \in {"quarter", "indicator"}
IsCall == Len(calls') > Len(calls)
NewOperation == nfetch' # nfetch
SunkTables == [i \in 1..Len(sunk) |-> sunk[i][2]]
SunkTickers == [i \in 1..Len(sunk) |-> sunk[i][1]]
Requested == UNION {Range(Chunks[calls[i][1]]) : i \in 1..Len(calls)}
Waiting == clock < retry_time

\* C1: in get_quarter / get_indicator an attempt that finds the stop flag set
\* at the loop head issues no call and no sink invocation, and the plan returns
\* normally; from then on the operation issues no call and invokes no sink,
\* and the results returned are exactly the tables handed to the sink.
C1_StopEndsPlan ==
    /\ [](plan = "stopped" /\ ElemMode => results = SunkTables)
    /\ [][(pc = "ready" /\ stop_fetch /\ ElemMode)
            => (/\ plan' = "stopped"
                /\ pc' = "consolidate"
                /\ exc' = "none"
                /\ calls' = calls
                /\ sunk' = sunk
                /\ results' = results)]_vars
    /\ [][(plan = "stopped" /\ ElemMode /\ ~NewOperation)
            => (calls' = calls /\ sunk' = sunk /\ results' = results)]_vars

\* C1 witness: get_quarter stopped in the middle of an entity chunk, after an
\* earlier chunk had been sunk.
C1_Witness ==
    /\ plan = "stopped"
    /\ mode = "quarter"
    /\ pc = "consolidate"
    /\ Len(sunk) > 0
    /\ results_ts # <<>>

\* C2: once a call has answered quota-exceeded at time t, every later call of
\* the operation is issued at t + 24 hours or later, for every retry setting.
C2_QuotaBackoff ==
    [][(IsCall /\ quota_at >= 0) => clock >= quota_at + DAY]_vars

\* C2 witness: with retries disabled, a call answered quota-exceeded and was
\* issued again, successfully, a day later.
C2_Witness ==
    /\ quota_at >= 0
    /\ retry < 0
    /\ resp \in ColDicts
    /\ clock >= quota_at + DAY

\* C3: a quota-exceeded answer never ends the operation with an error while
\* the stop flag is unset.
C3_QuotaNeverFatal ==
    ~(outcome = "raised" /\ resp = "quota" /\ ~stop_fetch)

\* C4: a plan of get_quarter / get_indicator that ends while a backoff is
\* pending and the stop flag is set ends as a cancellation.
C4_CancelDuringWait ==
    (ElemMode /\ stop_fetch /\ Waiting /\ plan # "running") => plan = "stopped"

\* C5: with a retry interval >= 0, an error other than quota-exceeded never
\* ends the operation with an error while the stop flag is unset.
C5_RetryNonFatal ==
    ~(outcome = "raised" /\ resp = "error" /\ retry >= 0 /\ ~stop_fetch)

\* C6: with a retry interval < 0, a non-quota error of a call reaches the
\* caller at once, without a sink invocation or a file written; after it the
\* operation issues no call and invokes no sink.
C6_FatalWithoutRetry ==
    /\ [][(IsCall /\ resp' = "error" /\ retry < 0)
            => (/\ outcome' = "raised"
                /\ exc' = "BCFetchError"
                /\ pc' = "idle"
                /\ sunk' = sunk
                /\ disk' = disk)]_vars
    /\ [][(exc = "BCFetchError" /\ ~NewOperation)
            => (calls' = calls /\ sunk' = sunk)]_vars

\* C6 witness: get_quarter failed in the second period chunk of a later
\* entity chunk, after an earlier chunk had been sunk.
C6_Witness ==
    /\ exc = "BCFetchError"
    /\ mode = "quarter"
    /\ Len(sunk) > 0
    /\ results_ts # <<>>

\* C7: a successful answer whose column definitions differ from those the
\* plan holds raises at once, for every retry setting, without a sink
\* invocation or a file written; the definitions the plan holds are never
\* replaced, and after the error no call is issued and no sink invoked.
C7_SchemaMismatchAborts ==
    /\ [][(/\ IsCall
           /\ ElemMode
           /\ resp' \in ColDicts
           /\ col_dict # None
           /\ Get(col_dict) # resp')
            => (/\ outcome' = "raised"
                /\ exc' = "RuntimeError"
                /\ pc' = "idle"
                /\ sunk' = sunk
                /\ disk' = disk)]_vars
    /\ [][(col_dict # None /\ ~NewOperation) => col_dict' = col_dict]_vars
    /\ [][(exc = "RuntimeError" /\ ~NewOperation)
            => (calls' = calls /\ sunk' = sunk)]_vars

\* C7 witness: with retries enabled, a plan raised on a mismatch after an
\* earlier entity chunk had been sunk.
C7_Witness ==
    /\ exc = "RuntimeError"
    /\ plan = "raised"
    /\ retry >= 0
    /\ Len(sunk) > 0

\* C8: the targets of fetch_quarter / fetch_indicator are the company tickers
\* without a file on disk, or all company tickers with overwrite; every call
\* names targets only, without overwrite never an entity that has a file, and
\* a completed plan has requested exactly the targets.
C8_FetchCursor ==
    /\ [][(NewOperation /\ mode' \in {"quarter", "indicator"} /\ company # None)
            => Range(targets') =
                 (IF overwrite'
                  THEN Range(Get(company))
                  ELSE Range(Get(company)) \ {t \in DiskTickers : disk[t] # None})]_vars
    /\ [][(IsCall /\ ElemMode)
            => (/\ Range(Chunks[ci]) \subseteq Range(targets)
                /\ ~overwrite => \A t \in Range(Chunks[ci]) : disk[t] = None)]_vars
    /\ [](plan = "completed" /\ ElemMode => Requested = Range(targets))

\* C8 witness: a plan without overwrite completed for some company tickers
\* while others, having a file, were left out.
C8_Witness ==
    /\ plan = "completed"
    /\ ElemMode
    /\ ~overwrite
    /\ Len(targets) > 0
    /\ \E t \in Tickers : t \notin Range(targets) /\ disk[t] # None

\* C9: a file the sink has written is never changed by what follows in the
\* operation; a fetch without overwrite that follows a cancelled or failed one
\* targets none of the entities whose files that one wrote, and every company
\* ticker without a file.
C9_NoRollback ==
    /\ [][\A t \in SunkFiles : disk'[t] = disk[t]]_vars
    /\ [][(/\ NewOperation
           /\ mode' \in {"quarter", "indicator"}
           /\ company # None
           /\ ElemMode
           /\ plan \in {"stopped", "raised"}
           /\ ~overwrite')
            => (/\ Range(targets') \cap SunkFiles = {}
                /\ Range(targets') = {t \in Range(Get(company)) : disk[t] = None})]_vars

\* C9 witness: a fetch without overwrite, following a cancelled or failed
\* fetch that had written files, has issued a call for the entities left.
C9_Witness ==
    /\ resumed
    /\ Len(calls) > 0
    /\ Len(targets) > 0
    /\ Len(targets) < MaxTicker

\* C10: with retries enabled, the stop flag unset and no mismatch of column
\* definitions, a plan that has ended has completed, with the sink invoked
\* once for every target, in order.
C10_PlanCompletes ==
    (/\ ElemMode
     /\ plan \in {"completed", "stopped", "raised"}
     /\ retry >= 0
     /\ ~stop_fetch
     /\ exc # "RuntimeError")
        => (plan = "completed" /\ SunkTickers = targets)

\* The chunk of the plan that holds ticker t, and whether a call for entity
\* chunk c and period chunk p has been answered with data.
ChunkOf(t) == CHOOSE c \in 1..Len(Chunks) : t \in Range(Chunks[c])
OkCall(c, p) ==
    \E i \in 1..Len(calls) :
        calls[i][1] = c /\ calls[i][2] = p /\ calls[i][3] \in ColDicts

\* C11: in get_quarter the sink is invoked for an entity only after every
\* period chunk of its entity chunk has been answered successfully; the step
\* that receives the last period's answer invokes it exactly once for every
\* entity of the chunk, in order, with or without data; and a call for an
\* entity chunk is issued only after the sink ran for all earlier chunks.
C11_SinkAfterChunk ==
    /\ [](mode = "quarter"
            => \A i \in 1..Len(sunk) : \A p \in 1..Len(periods) :
                   OkCall(ChunkOf(sunk[i][1]), p))
    /\ [][(mode = "quarter" /\ sunk' # sunk /\ ~NewOperation)
            => (/\ IsCall
                /\ pi = Len(periods)
                /\ SunkTickers' = SunkTickers \o Chunks[ci])]_vars
    /\ [][(mode = "quarter" /\ IsCall)
            => (/\ SunkTickers = SubSeq(targets, 1, Len(sunk))
                /\ Range(SunkTickers) =
                     UNION {Range(Chunks[c]) : c \in 1..(ci - 1)})]_vars

\* C11 witness: a plan of two period chunks and two entity chunks has
\* completed, the sink having been invoked for entities without data too.
C11_Witness ==
    /\ mode = "quarter"
    /\ plan = "completed"
    /\ Len(periods) = 2
    /\ Len(Chunks) = 2
    /\ Len(sunk) = Len(targets)
    /\ \E i \in 1..Len(sunk) : sunk[i][2] = None

\* The place of a call in the plan: entity chunks first, period chunks inside.
PlanPos(call) == (call[1] - 1) * Len(periods) + call[2]

\* C12: the calls of a plan follow the plan order (entity chunk by entity
\* chunk, the period chunks ascending inside each; a call that failed is
\* issued again before any later one), starting with the first; the targets
\* are in ascending order and the sink is invoked in that order, whatever
\* errors, waits and retries occur.
C12_PlanOrder ==
    /\ (ElemMode /\ Len(calls) > 0 => PlanPos(calls[1]) = 1)
    /\ (ElemMode
            => \A i \in 1..(Len(calls) - 1) :
                   /\ PlanPos(calls[i + 1]) - PlanPos(calls[i]) \in {0, 1}
                   /\ PlanPos(calls[i + 1]) = PlanPos(calls[i])
                        <=> calls[i][3] \notin ColDicts)
    /\ (ElemMode => \A i \in 1..Len(calls) : calls[i][2] \in 1..Len(periods))
    /\ (ElemMode
            => \A i, j \in 1..Len(targets) : i < j => targets[i] < targets[j])
    /\ (ElemMode => SunkTickers = SubSeq(targets, 1, Len(sunk)))

\* C12 witness: a plan of two entity chunks and two period chunks completed
\* although one of its calls failed and was issued again.
C12_Witness ==
    /\ mode = "quarter"
    /\ plan = "completed"
    /\ Len(periods) = 2
    /\ Len(Chunks) = 2
    /\ Len(calls) = 5
    /\ \E i \in 1..Len(calls) : calls[i][3] = "error"

\* The chunks of a plan laid end to end, and their sizes.
RECURSIVE Flat(_)
Flat(chunks) == IF chunks = <<>> THEN <<>> ELSE Head(chunks) \o Flat(Tail(chunks))
Sizes(chunks) == [i \in 1..Len(chunks) |-> Len(chunks[i])]

\* C13: the entity planner cuts the list into consecutive chunks that, laid
\* end to end, give the list back (order kept, every entity in exactly one
\* chunk); every chunk holds 1 to 3 entities and every chunk but the last
\* exactly 3; a list of 7 gives chunks of 3, 3 and 1, the empty list none.
C13_EntityChunks ==
    fn = "tickers"
        => /\ Flat(out) = arg
           /\ \A i \in 1..Len(out) : Len(out[i]) \in 1..3
           /\ \A i \in 1..(Len(out) - 1) : Len(out[i]) = 3
           /\ Len(arg) = 7 => Sizes(out) = <<3, 3, 1>>
           /\ Len(arg) = 0 => Len(out) = 0

\* C13 witness: a list of 7 entities has been planned.
C13_Witness ==
    /\ fn = "tickers"
    /\ Len(arg) = 7
    /\ Len(out) = 3

\* Quarters counted from year 0, and the quarters a range spans.
Idx(yq) == 4 * yq[1] + yq[2] - 1
Span(r) == Idx(r[2]) - Idx(r[1]) + 1

\* C14: for start <= end the period planner yields at least one range; the
\* first begins at start, the last ends at end, each begins right after the
\* one before ends (ascending, disjoint, without a gap), every bound is a
\* quarter 1..4, no range spans more than 12 quarters and every range but
\* the last spans exactly 12; 2012Q1..2019Q4 gives 2012Q1-2014Q4,
\* 2015Q1-2017Q4, 2018Q1-2019Q4.
C14_PeriodChunks ==
    (fn = "quarters" /\ Idx(arg[1]) <= Idx(arg[2]))
        => /\ Len(out) >= 1
           /\ out[1][1] = arg[1]
           /\ out[Len(out)][2] = arg[2]
           /\ \A i \in 1..Len(out) :
                  /\ out[i][1][2] \in 1..4
                  /\ out[i][2][2] \in 1..4
                  /\ Span(out[i]) \in 1..12
           /\ \A i \in 1..(Len(out) - 1) :
                  /\ Span(out[i]) = 12
                  /\ Idx(out[i + 1][1]) = Idx(out[i][2]) + 1
           /\ arg = << <<2012, 1>>, <<2019, 4>> >>
                => out = << << <<2012, 1>>, <<2014, 4>> >>,
                            << <<2015, 1>>, <<2017, 4>> >>,
                            << <<2018, 1>>, <<2019, 4>> >> >>

\* C14 witness: the period 2012Q1..2019Q4 has been planned.
C14_Witness ==
    /\ fn = "quarters"
    /\ arg = << <<2012, 1>>, <<2019, 4>> >>
    /\ Len(out) = 3

\* The rows the source holds for ticker t in the period chunks 1..n, in the
\* order of the chunks, as a table; None if it holds none.
Assembled(t, n) ==
    LET Rows(p) ==
            IF <<t, p>> \in norows THEN <<>>
            ELSE IF <<t, p>> \notin Repeated THEN << <<t, p, 1, 1>> >>
            ELSE IF mode = "quarter" THEN << <<t, p, 1, 2>>, <<t, p, 2, 3>> >>
            ELSE << <<t, p, 2, 1>> >>
        F[p \in 0..n] == IF p = 0 THEN <<>> ELSE F[p - 1] \o Rows(p)
    IN  IF F[n] = <<>> THEN None ELSE Some(F[n])

\* C15: the table the sink receives for an entity is the concatenation, in
\* period-chunk order, of the non-empty sub-results of that entity alone
\* ('no data' if all are empty); between two period chunks the entity's table
\* is the same over the chunks answered so far, so an entity empty in an
\* earlier chunk is kept and filled by a later one.
C15_Assembly ==
    /\ ElemMode
         => \A i \in 1..Len(sunk) : sunk[i][2] = Assembled(sunk[i][1], Len(periods))
    /\ (mode = "quarter" /\ results_ts # <<>>)
         => \A j \in 1..Len(results_ts) :
                results_ts[j] = Assembled(Chunks[ci][j], pi - 1)

\* C15 witness: an entity without rows in the first period chunk was handed
\* to the sink with the rows of the second.
C15_Witness ==
    /\ mode = "quarter"
    /\ Len(periods) = 2
    /\ \E i \in 1..Len(sunk) : sunk[i] = <<1, Some(<< <<1, 2, 1, 1>> >>)>>

\* C16: when the plan of fetch_quarter / fetch_indicator has completed, or
\* there were no targets, the operation ends with all.pickle rebuilt from all
\* per-entity files of the directory and the category reloaded from it: the
\* loaded data are exactly the records of those files.
C16_ConsolidateOnCompletion ==
    [][(/\ pc = "consolidate"
        /\ plan \in {"completed", "none"}
        /\ pc' = "idle")
         => (/\ outcome' = "returned"
             /\ all_pickle' = Some(AllDf(disk'))
             /\ loaded' # None
             /\ Get(loaded').data = AllDf(disk'))]_vars

\* The tickers a file may name that the company list lacks.
Undefined == DiskTickers \ Range(CompanyList)

\* C20: no step of any operation creates, deletes or changes the file of a
\* ticker the company list lacks, and no such ticker is among the targets of
\* a fetch or named by a call.
C20_UnknownUntouched ==
    /\ [][\A t \in Undefined : disk'[t] = disk[t]]_vars
    /\ [](ElemMode => Range(targets) \cap Undefined = {})
    /\ [](ElemMode => Requested \cap Undefined = {})

\* C20 witness: an overwriting fetch has completed in a directory that holds
\* the file of a ticker the company list lacks.
C20_Witness ==
    /\ ElemMode
    /\ plan = "completed"
    /\ overwrite
    /\ Len(sunk) = MaxTicker
    /\ disk[UnknownTicker] = Some(OldRows(UnknownTicker))

\* C17 as stated: after a load of a directory that holds per-entity files,
\* all.pickle exists and the category is loaded.
C17_LazyRebuild ==
    (mode = "load" /\ ExistTickers # {}) => (all_pickle # None /\ loaded # None)

\* C17 amended: a load writes nothing; the category is loaded exactly when
\* all.pickle and columns.json both exist, and then from all.pickle as it is.
\* Without all.pickle the category loads as absent, whatever per-entity files
\* the directory holds.
C17_LoadAsIs ==
    [][(NewOperation /\ mode' = "load")
        => (/\ all_pickle' = all_pickle
            /\ disk' = disk
            /\ columns_json' = columns_json
            /\ loaded' # None <=> (all_pickle # None /\ columns_json # None)
            /\ loaded' # None => Get(loaded').data = Get(all_pickle))]_vars

\* C17 witness: a load found per-entity files (left by a fetch that failed)
\* without all.pickle, and the category is absent.
C17_Witness ==
    /\ mode = "load"
    /\ all_pickle = None
    /\ ExistTickers # {}
    /\ loaded = None

\* A plot request has run get_plot_values.
Evaluated == answer.kind \in {"returned", "raised"}

\* C18: on a store where exactly one of the quarterly and the indicator
\* category is absent, get_plot_values never raises, and every value it
\* returns is NaN or a value of the category that is present.
C18_AbsentCategory ==
    (Evaluated /\ (quarter = None) # (indicator = None))
        => /\ answer.kind = "returned"
           /\ \A k \in DOMAIN answer.vals : \A t \in PlotTickers :
                  \/ answer.vals[k][t] = NaN
                  \/ answer.vals[k][t][1] = (IF quarter = None THEN "i" ELSE "q")

\* No store, no company data, or neither of the two categories.
NothingToPlot ==
    ~bcdata \/ company = None \/ (quarter = None /\ indicator = None)

\* C19: fetch_quarter / fetch_indicator on a store without company data
\* raise RuntimeError in their first step, with no call issued, no sink
\* invoked and no file of the directory created or changed; a plot request
\* made when there is no store, no company data or neither category is
\* refused, and on such a store nothing is ever evaluated or cached.
C19_Preconditions ==
    /\ [][(NewOperation /\ mode' \in {"quarter", "indicator"} /\ company = None)
            => (/\ outcome' = "raised"
                /\ exc' = "RuntimeError"
                /\ pc' = "idle"
                /\ calls' = <<>>
                /\ sunk' = <<>>
                /\ disk' = disk
                /\ columns_json' = columns_json
                /\ all_pickle' = all_pickle)]_vars
    /\ [][(NothingToPlot /\ answer' # answer /\ answer'.kind # "none")
            => (/\ answer'.kind = "refused"
                /\ answer'.vals = <<>>
                /\ plot_caches' = plot_caches)]_vars
    /\ [](NothingToPlot => (~Evaluated /\ plot_caches = <<>>))

\* C19 witness: on a loaded store without company data a fetch has raised
\* and a plot request has been refused.
C19_Witness ==
    /\ bcdata
    /\ company = None
    /\ quarter # None
    /\ ElemMode
    /\ exc = "RuntimeError"
    /\ answer.kind = "refused"

\* A per-entity file that holds rows.
HasRows(f) == f # None /\ f # Some(EmptyFile)

\* C21: a consolidation that finds an empty per-entity file next to files
\* with rows ends normally, with all.pickle built from the files with rows.
C21_EmptyFileSkipped ==
    [][(/\ pc = "consolidate"
        /\ pc' = "idle"
        /\ \E t \in DiskTickers : disk[t] = Some(EmptyFile)
        /\ \E t \in DiskTickers : HasRows(disk[t]))
         => (/\ outcome' = "returned"
             /\ all_pickle' # None
             /\ \A t \in DiskTickers :
                    HasRows(disk[t]) => Get(all_pickle')[t] = Get(disk[t]))]_vars

\* C22: an operation whose plan was ended by the stop flag returns.
C22_CancelReturns ==
    (plan = "stopped" /\ pc = "idle") => (outcome = "returned" /\ exc = "none")

\* The step is a plot request that get_plot_values has answered.
PlotStep == answer' # answer /\ answer'.kind \in {"returned", "raised"}

\* The outputs of the request whose expression names a column of the cache
\* as it is before the step.
HitKeys == {k \in DOMAIN answer'.query : answer'.query[k] \in CacheKeys(plot_caches)}

\* C23: get_plot_values hands the evaluators exactly the outputs whose
\* expression is no key of the cache, and calls no evaluator if there is
\* none; the outputs whose expression is a key are returned as the cache
\* holds them; every newly computed column is in the cache afterwards under
\* its expression, and the cache has got no other key.
C23_CacheUse ==
    [][PlotStep =>
        LET vd == answer'.query
            miss == DOMAIN vd \ HitKeys
        IN  /\ DOMAIN answer'.asked = miss
            /\ \A k \in miss : answer'.asked[k] = vd[k]
            /\ (miss = {} => DOMAIN answer'.evals = {})
            /\ (answer'.kind = "returned" =>
                  /\ \A k \in HitKeys :
                        answer'.vals[k] = Cached(plot_caches, vd[k])
                  /\ CacheKeys(plot_caches') =
                        CacheKeys(plot_caches) \cup {vd[k] : k \in miss}
                  /\ \A k \in miss :
                        Cached(plot_caches', vd[k]) = answer'.vals[k])]_vars

\* C23 witness: a request has returned one output from the cache and has
\* evaluated the other.
C23_Witness ==
    /\ answer.kind = "returned"
    /\ DOMAIN answer.asked = {"y"}
    /\ answer.query["x"] # answer.query["y"]
    /\ answer.vals["x"] = Cached(plot_caches, answer.query["x"])
    /\ answer.vals["y"] = Cached(plot_caches, answer.query["y"])

\* The column of expression s in the indicator and in the quarterly category
\* (NaN throughout if the category is absent).
IndicatorColumn(s) ==
    [t \in PlotTickers |->
        IF indicator = None THEN NaN ELSE Eval("i", Get(indicator), s, t)]
QuarterColumn(s) ==
    [t \in PlotTickers |->
        IF quarter = None THEN NaN ELSE Eval("q", Get(quarter), s, t)]

\* C24: every output a request has evaluated is, for all tickers, the
\* indicator column or the quarterly column of its expression: the
\* indicator column if that has a value for at least one ticker, and the
\* quarterly column only if the indicator category is absent or its column
\* has a value for no ticker.
C24_CategoryPerOutput ==
    [][(PlotStep /\ answer'.kind = "returned") =>
        \A k \in DOMAIN answer'.asked :
            LET icol == IndicatorColumn(answer'.asked[k])
                qcol == QuarterColumn(answer'.asked[k])
                col == answer'.vals[k]
            IN  /\ col \in {icol, qcol}
                /\ (~AllNaN(icol) => col = icol)
                /\ (col # icol => (indicator = None \/ AllNaN(icol)))]_vars

\* C24 witness: a request has returned an indicator column that lacks the
\* value of a ticker the quarterly category has, next to a quarterly column.
C24_Witness ==
    /\ answer.kind = "returned"
    /\ DOMAIN answer.asked = {"x", "y"}
    /\ quarter # None
    /\ \E t \in PlotTickers :
          /\ answer.vals["x"][t] = NaN
          /\ QuarterColumn(answer.query["x"])[t] # NaN
    /\ \E t \in PlotTickers : answer.vals["x"][t] = <<"i", answer.query["x"], t>>
    /\ \E t \in PlotTickers : answer.vals["y"][t] = <<"q", answer.query["y"], t>>

\* s is what t begins with.
IsPrefix(s, t) == Len(s) <= Len(t) /\ SubSeq(t, 1, Len(s)) = s

\* C25: the cache of a store no request has been made on is empty, and every
\* step either keeps all columns of the cache as they are, in place, adding
\* columns at most, or puts a new store in place of the old.
C25_CacheGrows ==
    /\ [](answer = NoAnswer => plot_caches = <<>>)
    /\ [][\/ IsPrefix(plot_caches, plot_caches')
          \/ (bcdata' /\ answer' = NoAnswer /\ plot_caches' = <<>>)]_vars

\* C25 witness: the cache holds an indicator column of "bc" computed before a
\* fetch that left the indicator category without any value of "bc", and the
\* last request was answered from the cache.
C25_Witness ==
    /\ indicator = FetchedIndicator
    /\ CacheHit(plot_caches, "bc")
    /\ Cached(plot_caches, "bc")[1] = <<"i", "bc", 1>>
    /\ answer.kind = "returned"
    /\ DOMAIN answer.asked = {}
    /\ answer.query["x"] = "bc"

\* C26: no two columns of the cache have one name, and a request that
\* returns has a column for every output, the same for two outputs of one
\* expression.
C26_OneColumnPerExpression ==
    /\ \A i, j \in DOMAIN plot_caches :
          plot_caches[i][1] = plot_caches[j][1] => i = j
    /\ answer.kind = "returned" =>
          /\ DOMAIN answer.vals = DOMAIN answer.query
          /\ \A k, l \in DOMAIN answer.query :
                answer.query[k] = answer.query[l] => answer.vals[k] = answer.vals[l]

\* C26 witness: a request with one expression for both outputs has evaluated
\* both and has returned.
C26_Witness ==
    /\ answer.kind = "returned"
    /\ DOMAIN answer.asked = {"x", "y"}
    /\ answer.query["x"] = answer.query["y"]
    /\ CacheHit(plot_caches, answer.query["x"])
    /\ ~AllNaN(answer.vals["x"])

\* C29: a request whose query both evaluators answer with None (the
\* quarterly category loaded) returns and leaves the cache as it is.
C29_NoDataReturns ==
    [][(/\ PlotStep
        /\ "q" \in DOMAIN answer'.evals
        /\ \A e \in DOMAIN answer'.evals : answer'.evals[e] = None)
         => (answer'.kind = "returned" /\ plot_caches' = plot_caches)]_vars

\* C30: every evaluator a request calls answers, unless no expression names
\* a column of its category, with a value for every output and ticker: NaN
\* where the expression raises for the ticker, names no column or the cell
\* holds no value, and the cell's value everywhere else.
C30_RaiseIsLocal ==
    [][PlotStep =>
        \A e \in DOMAIN answer'.evals :
            LET tab == Get(IF e = "i" THEN indicator ELSE quarter)
                asked == answer'.asked
                r == answer'.evals[e]
            IN  /\ r = None <=> (\A k \in DOMAIN asked : asked[k] \notin tab.cols)
                /\ r # None =>
                      \A k \in DOMAIN asked : \A t \in PlotTickers :
                          Get(r)[k][t] =
                              IF /\ asked[k] \in tab.cols
                                 /\ <<asked[k], t>> \notin (tab.nan \cup tab.err)
                              THEN <<e, asked[k], t>>
                              ELSE NaN]_vars

\* C30 witness: the indicator evaluator has answered a query in which "ic"
\* raises for ticker 1: NaN for that ticker, the value for ticker 2, and the
\* other output computed for ticker 1.
C30_Witness ==
    /\ answer.kind = "returned"
    /\ "i" \in DOMAIN answer.evals
    /\ indicator # None
    /\ <<"ic", 1>> \in Get(indicator).err
    /\ answer.asked = [k \in {"x", "y"} |-> IF k = "x" THEN "ic" ELSE "bc"]
    /\ Get(answer.evals["i"])["x"][1] = NaN
    /\ Get(answer.evals["i"])["x"][2] = <<"i", "ic", 2>>
    /\ Get(answer.evals["i"])["y"][1] = <<"i", "bc", 1>>

\* The expression rewritten and the column names it was rewritten for.
Expr == arg[1][1]
Columns == arg[2]
Quoted(s) == \E i \in DOMAIN s : s[i] \in Quotes

\* Every quote of s opens a literal that the next quote of its kind closes.
RECURSIVE WellQuoted(_)
WellQuoted(s) ==
    IF s = <<>> THEN TRUE
    ELSE IF s[1] \in Quotes
    THEN LET js == {j \in 2..Len(s) : s[j] = s[1]}
         IN  js # {} /\ WellQuoted(SubSeq(s, Least(js) + 1, Len(s)))
    ELSE WellQuoted(Tail(s))

\* s read from the left: a literal is copied as it is; outside of literals
\* the longest column name that begins at a position gives way to its
\* accessor, any other character is copied.
RECURSIVE Rewritten(_, _)
Rewritten(s, columns) ==
    IF s = <<>> THEN <<>>
    ELSE IF s[1] \in Quotes
    THEN LET j == Least({j \in 2..Len(s) : s[j] = s[1]})
         IN  SubSeq(s, 1, j) \o Rewritten(SubSeq(s, j + 1, Len(s)), columns)
    ELSE LET m == {i \in DOMAIN columns : StartsWith(s, columns[i])}
         IN  IF m = {} THEN <<s[1]>> \o Rewritten(Tail(s), columns)
             ELSE LET c == columns[CHOOSE i \in m : \A j \in m :
                                       Len(columns[j]) <= Len(columns[i])]
                  IN  Accessor(<<"d">>, c)
                          \o Rewritten(SubSeq(s, Len(c) + 1, Len(s)), columns)

\* C27: in an expression without quotes every position at which column
\* names begin is rewritten for the longest of them, whatever the order of
\* the column list; for the columns a and ab, "ab+a" becomes
\* "d['ab']+d['a']".
C27_LongestFirst ==
    (fn = "replace_value_str" /\ ~Quoted(Expr)) =>
        /\ out = <<Rewritten(Expr, Columns)>>
        /\ (Expr = <<"a", "b", "+", "a">> /\ <<"a", "b">> \in Range(Columns)) =>
              out = << <<"d", "[", SQ, "a", "b", SQ, "]", "+",
                         "d", "[", SQ, "a", SQ, "]">> >>

\* C27 witness: "ab+a" has been rewritten for the column list a, ab.
C27_Witness ==
    /\ fn = "replace_value_str"
    /\ Expr = <<"a", "b", "+", "a">>
    /\ Columns = << <<"a">>, <<"a", "b">> >>
    /\ out = << <<"d", "[", SQ, "a", "b", SQ, "]", "+", "d", "[", SQ, "a", SQ, "]">> >>

\* C28: in an expression whose quotes all delimit literals, the literals
\* come out as they went in and the column names outside of them come out as
\* accessors.
C28_LiteralsKept ==
    (fn = "replace_value_str" /\ Quoted(Expr) /\ WellQuoted(Expr)) =>
        out = <<Rewritten(Expr, Columns)>>

\* The entries the sink has been invoked with in this step.
NewSunk == SubSeq(sunk', Len(sunk) + 1, Len(sunk'))

\* C40: the sink is invoked with no table for an entity exactly if the
\* source has rows for it in no period chunk, and then the entity's file is
\* as before, absent or not; a fetch without overwrite has every entity of
\* the company list that has no file as a target.
C40_NoDataNoFile ==
    /\ [][(Len(sunk') > Len(sunk)) =>
            \A i \in DOMAIN NewSunk :
                LET t == NewSunk[i][1]
                IN  /\ NewSunk[i][2] = None <=>
                          (\A q \in 1..Len(periods) : <<t, q>> \in norows)
                    /\ NewSunk[i][2] = None => disk'[t] = disk[t]]_vars
    /\ [][(NewOperation /\ mode' \in {"quarter", "indicator"}
             /\ company # None /\ ~overwrite')
            => \A t \in Range(Get(company)) :
                   disk[t] = None => t \in Range(targets')]_vars

\* C40 witness: an overwrite fetch has run to its end; the sink was invoked
\* with no table for an entity whose file from before is still there.
C40_Witness ==
    /\ ElemMode
    /\ overwrite
    /\ pc = "idle"
    /\ outcome = "returned"
    /\ \E i \in DOMAIN sunk :
          /\ sunk[i][2] = None
          /\ disk[sunk[i][1]] = Some(OldRows(sunk[i][1]))

\* C39: in a fetch_quarter / fetch_indicator, all.pickle and the loaded
\* category change only in the step that ends the operation with a normal
\* return, never in an operation whose plan has raised; the query cache and
\* the company data do not change at all; a per-entity file changes only by
\* the sink writing it, and columns.json only in a step of the sink.
C39_AbortFrame ==
    [][(mode' \in {"quarter", "indicator"}) =>
        /\ (all_pickle' # all_pickle \/ loaded' # loaded) =>
              (pc' = "idle" /\ outcome' = "returned" /\ plan' # "raised")
        /\ plot_caches' = plot_caches
        /\ company' = company
        /\ \A t \in DiskTickers :
              disk'[t] # disk[t] =>
                  \E i \in DOMAIN NewSunk : NewSunk[i] = <<t, disk'[t]>>
        /\ columns_json' # columns_json => Len(sunk') > Len(sunk)]_vars

\* C39 witness: a fetch has aborted with a call error or a schema mismatch
\* after the sink wrote files; all.pickle and the loaded category lack the
\* rows of those files.
C39_Witness ==
    /\ ElemMode
    /\ pc = "idle"
    /\ plan = "raised"
    /\ exc \in {"BCFetchError", "RuntimeError"}
    /\ SunkFiles # {}
    /\ all_pickle # None
    /\ loaded # None
    /\ \E t \in SunkFiles :
          /\ (t \notin DOMAIN Get(all_pickle)
                \/ Get(all_pickle)[t] # Get(disk[t]))
          /\ (t \notin DOMAIN Get(loaded).data
                \/ Get(loaded).data[t] # Get(disk[t]))

\* The call issued last, and whether it failed.
LastCall == calls[Len(calls)]
Failed(call) == call[3] \notin ColDicts

\* C35: in get_quarter / get_indicator a call that fails changes neither the
\* position in the plan nor any result, file or column definition; the call
\* issued after a failed one is for the same entity chunk and period chunk;
\* the k-th call that succeeded is for the k-th cell of the plan; and the
\* results hold, target by target, the rows of each period chunk once.
C35_RetrySameCell ==
    /\ [][(IsCall /\ mode' \in {"quarter", "indicator"} /\ Failed(LastCall'))
            => UNCHANGED <<ci, pi, results, results_ts, col_dict, sunk, disk,
                           columns_json, all_pickle>>]_vars
    /\ [][(IsCall /\ ElemMode /\ calls # <<>> /\ Failed(LastCall))
            => (LastCall'[1] = LastCall[1] /\ LastCall'[2] = LastCall[2])]_vars
    /\ [](ElemMode =>
            LET Ok(call) == ~Failed(call)
                ok == SelectSeq(calls, Ok)
            IN  \A k \in DOMAIN ok : PlanPos(ok[k]) = k)
    /\ [](ElemMode =>
            /\ Len(results) = Len(sunk)
            /\ \A j \in DOMAIN results :
                  results[j] = Assembled(targets[j], Len(periods)))

\* C35 witness: a plan of several calls has completed although a call after
\* the first failed and was issued again.
C35_Witness ==
    /\ ElemMode
    /\ plan = "completed"
    /\ Len(results) = Len(targets)
    /\ \E i \in 2..(Len(calls) - 1) :
          /\ Failed(calls[i])
          /\ ~Failed(calls[i + 1])
          /\ PlanPos(calls[i + 1]) = PlanPos(calls[i])
          /\ PlanPos(calls[i]) = PlanPos(calls[i - 1]) + 1

\* No two rows of the table have one index.
UniqueKeys(rows) ==
    \A i, j \in DOMAIN rows : Key(rows[i]) = Key(rows[j]) => i = j

\* C32: a per-entity file written by get_quarter's sink, and an all.pickle
\* made of such files, hold at most one row per (ticker, fiscal year, fiscal
\* quarter); where the source repeated a key in an answer, the row kept is
\* the record of that key that came last in the answer.
C32_LastDuplicateWins ==
    mode = "quarter" =>
        /\ \A t \in SunkFiles :
              /\ UniqueKeys(Get(disk[t]))
              /\ \A p \in 1..Len(periods) :
                    (<<t, p>> \in Repeated /\ <<t, p>> \notin norows) =>
                        /\ <<t, p, 2, 3>> \in Range(Get(disk[t]))
                        /\ <<t, p, 1, 2>> \in Range(Get(disk[t]))
        /\ (pc = "idle" /\ outcome = "returned" /\ all_pickle # None) =>
              \A t \in SunkFiles :
                  /\ UniqueKeys(Get(all_pickle)[t])
                  /\ Get(all_pickle)[t] = Get(disk[t])

\* C32 witness: a quarterly fetch has returned; the source had repeated a
\* key of ticker 2, whose file and whose rows in all.pickle hold the record
\* that came last.
C32_Witness ==
    /\ mode = "quarter"
    /\ pc = "idle"
    /\ outcome = "returned"
    /\ 2 \in SunkFiles
    /\ <<2, 1, 2, 3>> \in Range(Get(disk[2]))
    /\ <<2, 1, 2, 3>> \in Range(Get(all_pickle)[2])
    /\ <<2, 1, 2, 1>> \notin Range(Get(all_pickle)[2])

\* The series cagr was applied to, its latest year and the year its window
\* starts with.
Series == arg[1]
LatestYear == Series[Len(Series)][1]
StartYear == IF arg[2] = None THEN Series[1][1] ELSE LatestYear - Get(arg[2])
ValueOf(y) == Series[CHOOSE i \in DOMAIN Series : Series[i][1] = y][2]
HasYear(y) == \E i \in DOMAIN Series : Series[i][1] = y

\* A value of the window is lower than the value known last before it (for
\* values that are not positive: the relative change is below zero).
DeclineInWindow ==
    \E i, k \in DOMAIN Series :
        /\ Series[i][1] >= StartYear
        /\ i < k
        /\ Series[k][2] # None
        /\ Series[i][2] # None
        /\ \A j \in (i + 1)..(k - 1) : Series[j][2] = None
        /\ ChangeNegative(Get(Series[i][2]), Get(Series[k][2]))

\* The cases of an undefined result other than those of the start and end
\* values.
NoWindow ==
    \/ Len(Series) < 2
    \/ \A i \in DOMAIN Series : Series[i][2] = None
    \/ ~HasYear(StartYear)

\* C31 as stated: cagr is undefined exactly if the series has fewer than 2
\* points, is all missing, lacks the year latest - n, has a start or end
\* value that is a number not above zero, or all_plus is true and a change
\* inside the window is negative.
C31_UndefinedCases ==
    fn = "cagr" =>
        (out = None <=>
            \/ NoWindow
            \/ (ValueOf(StartYear) # None /\ Get(ValueOf(StartYear)) <= 0)
            \/ (ValueOf(LatestYear) # None /\ Get(ValueOf(LatestYear)) <= 0)
            \/ (arg[3] /\ DeclineInWindow))

\* C31, amended: cagr is undefined exactly if the series has fewer than 2
\* points, is all missing, lacks the year latest - n, has a start or end
\* value that is missing or not above zero, or all_plus is true and a
\* change inside the window is negative; otherwise it is the rate of the
\* end value over the start value for the years between them.
C31_UndefinedOrMissingEnds ==
    fn = "cagr" =>
        IF \/ NoWindow
           \/ ValueOf(StartYear) = None
           \/ ValueOf(LatestYear) = None
           \/ Get(ValueOf(StartYear)) <= 0
           \/ Get(ValueOf(LatestYear)) <= 0
           \/ (arg[3] /\ DeclineInWindow)
        THEN out = None
        ELSE out = Some(<<Get(ValueOf(LatestYear)), Get(ValueOf(StartYear)),
                          LatestYear - StartYear>>)

\* C31 witness: cagr has been applied with all_plus to a series of three
\* years whose end value is missing while the values before rise.
C31_Witness ==
    /\ fn = "cagr"
    /\ arg[3]
    /\ Len(Series) = 3
    /\ Series[3][2] = None
    /\ Series[1][2] = Some(1)
    /\ Series[2][2] = Some(2)
    /\ out = None

\* C37: stop_fetch never calls stop() on a handle that has been cleared
\* (fails: the worker clears the handle between the test and the call).
C37_StopOnLiveHandle == main.exc # "AttributeError"

\* C34: get_plot_values is never being evaluated while a fetch worker of the
\* store is in flight (fails: nothing keeps a Plot request from running
\* during a fetch).
C34_NoPlotDuringFetch == ~(main.pc = "exec_plot" /\ InFlight # {})

\* C38: the step that ends a worker's re-enabling of the controls leaves the
\* application idle (fails: a Fetch request is served between the two last
\* assignments of _enable_widgets).
C38_ReturnsToIdle ==
    [][\A w \in DOMAIN threads :
          (threads[w].pc = "stop_btn" /\ threads'[w].pc = "log") => ControlsIdle']_vars

\* C33 as stated: at most one worker thread exists at any time.
C33_OneWorker == Cardinality(Alive) <= 1

\* C33, amended: at most one worker is between its start and its clearing
\* of the handle, at most one external call is in flight, and a fetch is
\* started only when no worker is between its start and its clearing of the
\* handle; the thread of a worker past that point may still exist.
C33_OneFetching ==
    /\ [](Cardinality(InFlight) <= 1 /\ Cardinality(Calling) <= 1)
    /\ [][Len(threads') > Len(threads) => InFlight = {}]_vars

\* C33 witness: the second worker is inside an external call while the
\* thread of the first has not ended.
C33_Witness ==
    /\ Len(threads) = 2
    /\ threads[1].pc \in {"stop_btn", "log"}
    /\ threads[2].pc = "call"

\* C36: the stop flag of a run is never reset; a worker that has read the
\* flag as set issues no external call any more, in the category it was
\* in and in the later ones; a call is issued only by a step that read the
\* flag as unset; a new run starts with its flag unset.
C36_StopIsFinal ==
    [][/\ \A w \in DOMAIN threads :
             /\ threads[w].stop_fetch => threads'[w].stop_fetch
             /\ threads[w].observed =>
                   /\ threads'[w].observed
                   /\ threads[w].stop_fetch
                   /\ threads'[w].pc # "call"
                   /\ threads'[w].ncall <= threads[w].ncall
             /\ (threads[w].pc # "call" /\ threads'[w].pc = "call") =>
                   ~threads[w].stop_fetch
       /\ Len(threads') > Len(threads) =>
             ~threads'[Len(threads')].stop_fetch]_vars

\* C36 witness: the first run has read its flag as set and has ended; the
\* second run is inside an external call.
C36_Witness ==
    /\ Len(threads) = 2
    /\ threads[1].observed
    /\ threads[1].stop_fetch
    /\ threads[1].pc = "done"
    /\ threads[2].pc = "call"
    /\ ~threads[2].stop_fetch

=============================================================================
